---- MODULE Spec2Model ----
(***************************************************************************)
(* Model of robotcode's keyword-call analyzer                              *)
(* (language_server/robotframework/diagnostics/analyzer.py): the           *)
(* diagnostic buffer with its suppression scanner, analyze_call            *)
(* (_analyze_keyword_call), the run-keyword state machine                  *)
(* (_analyse_run_keyword) and the get() entry point.                       *)
(*                                                                         *)
(* The handlers are Python coroutines that mutate self._results and may    *)
(* raise.  Here each handler is an operator over a record E of the         *)
(* Analyzer object's attributes and of what the pass has done:             *)
(*   E = [results, document, name, calls, lookups, exc]                    *)
(* results: self._results; document: self._namespace.document; name:       *)
(* self.current_testcase_or_keyword_name (None or a name); calls: the      *)
(* analyze_call invocations made so far (ghost); lookups: the names handed *)
(* to the finder (ghost); exc: the exception that is propagating ("" when  *)
(* none).                                                                  *)
(***************************************************************************)
EXTENDS Integers, Sequences, FiniteSets, TLC

VARIABLES
    pc,         \* position of the analysis
    node,       \* the visited statement: [kind, assign, keyword, args]
    document,   \* namespace.document: [present, lines]
    current_testcase_or_keyword_name,  \* Analyzer attribute: None or a name
    fault,      \* which awaited operation raises, and what
    results,    \* Analyzer._results
    calls,      \* ghost: analyze_call invocations, in order
    lookups,    \* ghost: names passed to finder.find_keyword
    ret,        \* ghost: list returned by _analyse_run_keyword
    exc,        \* exception that escaped the handler ("" if none)
    appended,   \* ghost: the range of the last append_diagnostics call and
                \* the buffer before it; in a pass over a file, the
                \* diagnostics the visit of node appended
    tasks,      \* the get() calls in flight
    analyzers,  \* the Analyzer objects they are made on
    lists       \* the list objects self._results refers to

vars == <<pc, node, document, current_testcase_or_keyword_name, fault,
          results, calls, lookups, ret, exc, appended, tasks, analyzers, lists>>

----------------------------------------------------------------------------
(* Bounds of the enumerated inputs *)

MaxArgs == 4

MaxArgsIf == 6
MaxArgsKeywords == 5
MaxArgsKeyword == 4
MaxArgsScenario == 4
MaxArgsNested == 4

MaxLines == 3

MaxNodes == 2

MaxArgsFault == 3

MaxFaultAt == 3

MaxFileLines == 2

\* the most arguments of the statement a definition is asked for
MaxArgsDefinition == 3

\* the most arguments of a call of a keyword with errors or deprecated
MaxArgsDocs == 3

\* the most entries of the namespace's library map and of its resource map
MaxImports == 2

\* the largest line and the largest character of a compared Position
MaxCoord == 2

----------------------------------------------------------------------------
(* lsp_types: Position, Range *)

Position(line, character) == [line |-> line, character |-> character]

Range(start, end) == [start |-> start, end |-> end]

----------------------------------------------------------------------------
(* Tokens (robot.parsing.lexer.tokens.Token) and utils.ast *)

Token(value, lineno, col_offset) ==
    [value |-> value, lineno |-> lineno, col_offset |-> col_offset]

\* Token.end_col_offset: col_offset + len(value)
end_col_offset(t) == t.col_offset + Len(t.value)

\* is_not_variable_token: the value holds no variable; "${c}" and "${kw}"
\* are the variable-bearing values of the statements
is_not_variable_token(t) == t.value \notin {"${c}", "${kw}"}

range_from_token(t) ==
    Range(Position(t.lineno - 1, t.col_offset),
          Position(t.lineno - 1, end_col_offset(t)))

\* get_token's None
NoToken == Token("", 0, 0)

\* A statement node.  assign: its ASSIGN tokens, keyword: its KEYWORD (or
\* NAME) token or NoToken, args: its ARGUMENT tokens.
Statement(kind, assign, keyword, args) ==
    [kind |-> kind, assign |-> assign, keyword |-> keyword, args |-> args]

\* The tokens of the node that carry text, in source order.
NodeTokens(n) ==
    n.assign \o (IF n.keyword = NoToken THEN <<>> ELSE <<n.keyword>>) \o n.args

\* range_from_node: the statement starts with its indentation at column 0
\* and ends with its last token.
range_from_node(n) ==
    LET toks == NodeTokens(n)
    IN  Range(Position(toks[1].lineno - 1, 0),
              Position(toks[Len(toks)].lineno - 1, end_col_offset(toks[Len(toks)])))

range_from_node_or_token(n, t) ==
    IF t # NoToken THEN range_from_token(t) ELSE range_from_node(n)

\* robot.utils.escaping.unescape on the enumerated values: a backslash
\* before an ordinary character is dropped.
unescape(value) ==
    CASE value = "\\Log" -> "Log"
      [] value = "Run\\ Keyword" -> "Run Keyword"
      [] OTHER -> value

----------------------------------------------------------------------------
(* KeywordDoc (library_doc.KeywordDoc) and the namespace's keyword table *)

\* Python's None where a string may stand, as the value of
\* current_testcase_or_keyword_name or of a source path; the names of test
\* cases and keywords are the other strings, "" included.
None == "<None>"

\* An Optional[str] is the string or None; an Optional[int] is a sequence
\* of at most one integer.
KeywordDoc(name, family, cond_count, min_args, max_args) ==
    [name |-> name, libname |-> "BuiltIn", family |-> family,
     cond_count |-> cond_count, min_args |-> min_args, max_args |-> max_args,
     source |-> "/robot/libraries/BuiltIn.py", line_no |-> Len(name),
     is_deprecated |-> FALSE, deprecated_message |-> None,
     is_error_handler |-> FALSE, errors |-> <<>>]

\* library_doc.Error: an import error of a keyword definition
ImportError(message, source, line_no) ==
    [message |-> message, source |-> source, line_no |-> line_no]

\* find_keyword's None
NoKeywordDoc == KeywordDoc("", "None", 0, 0, 0)

IsNone(doc) == doc.name = ""

\* Arities follow BuiltIn: Log(message, level, html, console, repr,
\* formatter), Run Keyword(name, *args), Run Keywords(*keywords),
\* Run Keyword If(condition, name, *args),
\* Run Keyword And Expect Error(expected_error, name, *args),
\* Wait Until Keyword Succeeds(retry, retry_interval, name, *args).
\* max_args = -1: the keyword takes varargs.  The keywords of BuiltIn.py
\* are on distinct lines of it.
NamespaceKeywords ==
    { KeywordDoc("Log", "None", 0, 1, 6),
      KeywordDoc("Run Keyword", "RunKeyword", 0, 1, -1),
      KeywordDoc("Run Keywords", "RunKeywords", 0, 0, -1),
      KeywordDoc("Run Keyword If", "RunKeywordIf", 0, 2, -1),
      KeywordDoc("Run Keyword And Expect Error", "RunKeywordWithCondition", 1, 2, -1),
      KeywordDoc("Wait Until Keyword Succeeds", "RunKeywordWithCondition", 2, 3, -1),
      [KeywordDoc("Old Log", "None", 0, 1, 6) EXCEPT !.is_deprecated = TRUE],
      [KeywordDoc("Older Log", "None", 0, 1, 6) EXCEPT
           !.is_deprecated = TRUE, !.deprecated_message = "Use Log"],
      [KeywordDoc("Broken Kw", "None", 0, 0, 1) EXCEPT
           !.libname = "Broken", !.source = "/lib/Broken.py", !.line_no = 7,
           !.errors = << ImportError("e1", "/lib/Other.py", <<3>>),
                         ImportError("e2", None, <<>>) >>],
      [KeywordDoc("Dyn Kw", "None", 0, 0, 1) EXCEPT
           !.libname = "Dyn", !.source = None, !.line_no = -1,
           !.errors = << ImportError("e3", None, <<>>) >>],
      [KeywordDoc("Init Kw", "None", 0, 0, 1) EXCEPT
           !.libname = "Init", !.source = "/lib/Init.py", !.line_no = 0,
           !.errors = << ImportError("e4", None, <<0>>) >>] }

is_any_run_keyword(doc) == doc.family # "None"

is_run_keyword(doc) == doc.family = "RunKeyword"

is_run_keyword_with_condition(doc) == doc.family = "RunKeywordWithCondition"

run_keyword_condition_count(doc) == doc.cond_count

is_run_keywords(doc) == doc.family = "RunKeywords"

is_run_keyword_if(doc) == doc.family = "RunKeywordIf"

\* ArgumentSpec.resolve: "" when the values bind, else the failure's type
\* name (robot.errors.DataError: too few or too many positional arguments).
resolve(doc, values) ==
    IF Len(values) < doc.min_args THEN "DataError"
    ELSE IF doc.max_args >= 0 /\ Len(values) > doc.max_args THEN "DataError"
    ELSE ""

----------------------------------------------------------------------------
(* Diagnostics *)

DIAGNOSTICS_SOURCE_NAME == "robotcode"

Diagnostic(range, message, severity, code, source, tags) ==
    [range |-> range, message |-> message, severity |-> severity,
     code |-> code, source |-> source, tags |-> tags,
     related_information |-> <<>>]

\* The exceptions the except clauses re-raise.
Reraised == {"CancelledError", "SystemExit", "KeyboardInterrupt"}

\* The Analyzer of a pass that has done nothing yet.
Analyzer(doc, name) ==
    [results |-> <<>>, document |-> doc, name |-> name,
     calls |-> <<>>, lookups |-> <<>>, exc |-> ""]

----------------------------------------------------------------------------
(* KeywordFinder.find_keyword: the doc (or None), the finder's diagnostics  *)
(* of this lookup, and the failure it raised, if any.  When fault.op is    *)
(* "find_keyword", the lookup whose number is fault.at raises fault.kind.  *)

find_keyword(name, E) ==
    LET n == Len(E.lookups) + 1
        E1 == [E EXCEPT !.lookups = Append(@, name)]
        found == {d \in NamespaceKeywords : d.name = name}
    IN  IF fault.op = "find_keyword" /\ fault.at = n
        THEN [doc |-> NoKeywordDoc, diagnostics |-> <<>>,
              E |-> [E1 EXCEPT !.exc = fault.kind]]
        ELSE IF found = {}
        THEN [doc |-> NoKeywordDoc,
              diagnostics |-> << [message |-> "No keyword with name found.",
                                  severity |-> "Error",
                                  code |-> "KeywordError/not_found"] >>,
              E |-> E1]
        ELSE [doc |-> CHOOSE d \in found : TRUE, diagnostics |-> <<>>, E |-> E1]

----------------------------------------------------------------------------
(* Suppression scanner: Analyzer.should_ignore                             *)
(*                                                                         *)
(* A document line is [sep, comment]: sep says what stands before the      *)
(* line's "#" ("bol": only blanks from the start of the line, "tab": tabs, *)
(* "sp2": two or more blanks, "sp1": one blank after text, "none": the     *)
(* line has no "#"); comment is the text after the "#", as words.          *)

Line(sep, comment) == [sep |-> sep, comment |-> comment]

\* EXTRACT_COMMENT_PATTERN .*(?:^ *|\t+| {2,})#(?P<comment>.*)$ :
\* the comment group, or <<>> when the line does not match.
ExtractComment(line) ==
    IF line.sep \in {"bol", "tab", "sp2"} THEN line.comment ELSE <<>>

\* ROBOTCODE_PATTERN (\brobotcode\b)\s*:\s*(\b\w+\b) with finditer: the
\* rules of the matches in the comment, found from left to right without
\* overlap.
RECURSIVE RobotcodeRules(_)
RobotcodeRules(comment) ==
    IF Len(comment) < 3 THEN {}
    ELSE IF comment[1] = "robotcode" /\ comment[2] = ":" /\ comment[3] # ":"
    THEN {comment[3]} \cup RobotcodeRules(SubSeq(comment, 4, Len(comment)))
    ELSE RobotcodeRules(Tail(comment))

\* lines 60-65: the line carries the ignore pragma
LineIsIgnored(line) ==
    /\ ExtractComment(line) # <<>>
    /\ "ignore" \in RobotcodeRules(ExtractComment(line))

\* lines[line_no] of a Python list: a negative index counts from the end,
\* an index outside the list raises IndexError.
ListIndex(lines, line_no) ==
    IF line_no < 0 THEN Len(lines) + line_no ELSE line_no

ScanStartLine(lines, line_no, end_line) ==
    IF line_no > end_line THEN "keep"
    ELSE IF ListIndex(lines, line_no) < 0 \/ ListIndex(lines, line_no) >= Len(lines)
    THEN "IndexError"
    ELSE IF LineIsIgnored(lines[ListIndex(lines, line_no) + 1]) THEN "ignore"
    ELSE "keep"

\* The loop of lines 57-65: "ignore" (return True), "keep" (the loop ends)
\* or "IndexError" (lines[line_no] raises).
RECURSIVE ScanLines(_, _, _)
ScanLines(lines, line_no, end_line) ==
    IF line_no > end_line THEN "keep"
    ELSE IF ListIndex(lines, line_no) < 0 \/ ListIndex(lines, line_no) >= Len(lines)
    THEN "IndexError"
    ELSE IF LineIsIgnored(lines[ListIndex(lines, line_no) + 1]) THEN "ignore"
    ELSE ScanLines(lines, line_no + 1, end_line)

should_ignore(doc, range) ==
    IF doc.present
    THEN ScanLines(doc.lines, range.start.line, range.end.line)
    ELSE "keep"

\* lines 81-86, given what should_ignore gave
AppendUnlessIgnored(E, ignore, diagnostic) ==
    IF ignore = "IndexError" THEN [E EXCEPT !.exc = "IndexError"]
    ELSE IF ignore = "ignore" THEN E
    ELSE [E EXCEPT !.results = Append(@, diagnostic)]

\* Analyzer.append_diagnostics on the buffer of E.  Nothing runs while an
\* exception propagates.  should_ignore awaits document.get_lines() when
\* there is a document: when fault.op is "get_lines", the call made while
\* the buffer holds fault.at - 1 diagnostics raises fault.kind.
append_diagnostics_related(E, range, message, severity, code, source, tags, related) ==
    IF E.exc # "" THEN E
    ELSE IF fault.op = "get_lines" /\ E.document.present
            /\ fault.at = Len(E.results) + 1
    THEN [E EXCEPT !.exc = fault.kind]
    ELSE AppendUnlessIgnored(
             E, should_ignore(E.document, range),
             [Diagnostic(range, message, severity, code, source, tags)
                 EXCEPT !.related_information = related])

append_diagnostics_without_source(E, range, message, severity, code, tags) ==
    append_diagnostics_related(E, range, message, severity, code, None, tags, <<>>)

\* append_diagnostics as the visitors call it: each of the calls (lines 107,
\* 160, 169, 188, 204, 250, 402, 415, 434, 461, 470) passes
\* source=DIAGNOSTICS_SOURCE_NAME and no related_information
append_diagnostics(E, range, message, severity, code, tags) ==
    append_diagnostics_related(E, range, message, severity, code,
                               DIAGNOSTICS_SOURCE_NAME, tags, <<>>)

finder_diagnostics_not_drained(E, range, diagnostics) == E

\* for e in self.finder.diagnostics: await self.append_diagnostics(...)
RECURSIVE append_finder_diagnostics(_, _, _)
append_finder_diagnostics(E, range, diagnostics) ==
    IF diagnostics = <<>> THEN E
    ELSE append_finder_diagnostics(
             append_diagnostics(E, range, Head(diagnostics).message,
                                Head(diagnostics).severity,
                                Head(diagnostics).code, <<>>),
             range, Tail(diagnostics))

----------------------------------------------------------------------------
(* Analyzer._analyze_keyword_call                                          *)

Call(name, token, args, analyse_run_keywords) ==
    [name |-> name, token |-> token, args |-> args,
     analyse_run_keywords |-> analyse_run_keywords]

\* Uri.from_path: the file URI of a path
FileUri(path) == "file://" \o path

RelatedInformationAtDoc(err, doc) ==
    [location |->
         [uri |-> FileUri(IF doc.source # None THEN doc.source ELSE "/<unknown>"),
          range |-> Range(Position(IF doc.line_no >= 0 THEN doc.line_no ELSE 0, 0),
                          Position(IF doc.line_no >= 0 THEN doc.line_no ELSE 0, 0))],
     message |-> err.message]

\* lines 122-153: the related information of one import error of doc
RelatedInformation(err, doc) ==
    [location |->
         [uri |-> FileUri(IF err.source # None THEN err.source
                          ELSE IF doc.source # None THEN doc.source
                          ELSE "/<unknown>"),
          range |-> Range(Position(IF err.line_no # <<>> THEN err.line_no[1] - 1
                                   ELSE IF doc.line_no >= 0 THEN doc.line_no
                                   ELSE 0, 0),
                          Position(IF err.line_no # <<>> THEN err.line_no[1] - 1
                                   ELSE IF doc.line_no >= 0 THEN doc.line_no
                                   ELSE 0, 0))],
     message |-> err.message]

\* lines 116-157
DefinitionErrors(doc, at, E) ==
    IF doc.errors # <<>>
    THEN append_diagnostics_related(
             E, at, "Keyword definition contains errors.", "Error", "",
             DIAGNOSTICS_SOURCE_NAME, <<>>,
             [i \in 1..Len(doc.errors) |-> RelatedInformation(doc.errors[i], doc)])
    ELSE E

DeprecationWithoutMessage(doc, at, E) ==
    IF doc.is_deprecated
    THEN append_diagnostics(E, at, "Keyword '" \o doc.name \o "' is deprecated.",
                            "Hint", "", <<"Deprecated">>)
    ELSE E

\* lines 159-167
Deprecation(doc, at, E) ==
    IF doc.is_deprecated
    THEN append_diagnostics(
             E, at,
             "Keyword '" \o doc.name \o "' is deprecated"
                 \o (IF doc.deprecated_message \notin {None, ""}
                     THEN ": " \o doc.deprecated_message ELSE "")
                 \o ".",
             "Hint", "", <<"Deprecated">>)
    ELSE E

\* lines 168-174
ErrorHandler(doc, at, E) ==
    IF doc.is_error_handler
    THEN append_diagnostics(E, at, "Keyword definition contains errors: ", "Error", "", <<>>)
    ELSE E

ArgumentsRangeFromLastArgument(keyword_token, arguments) ==
    Range(IF arguments # <<>>
          THEN range_from_token(arguments[Len(arguments)]).end
          ELSE range_from_token(keyword_token).end,
          range_from_token(keyword_token).start)

\* lines 188-194: from the keyword token to the last argument token
ArgumentsRange(keyword_token, arguments) ==
    Range(range_from_token(keyword_token).start,
          IF arguments # <<>>
          THEN range_from_token(arguments[Len(arguments)]).end
          ELSE range_from_token(keyword_token).end)

ArgumentBindingInTemplates(failure, n, keyword_token, arguments, E) ==
    IF E.exc # "" \/ failure = ""
    THEN E
    ELSE IF failure \in Reraised
    THEN [E EXCEPT !.exc = failure]
    ELSE append_diagnostics(E, ArgumentsRange(keyword_token, arguments),
                            failure, "Error", failure, <<>>)

\* lines 176-199, failure being what arguments.resolve raised ("": nothing)
ArgumentBinding(failure, n, keyword_token, arguments, E) ==
    IF E.exc # "" \/ n.kind \in {"Template", "TestTemplate"} \/ failure = ""
    THEN E
    ELSE IF failure \in Reraised
    THEN [E EXCEPT !.exc = failure]
    ELSE append_diagnostics(E, ArgumentsRange(keyword_token, arguments),
                            failure, "Error", failure, <<>>)

TokenValues(tokens) == [i \in 1..Len(tokens) |-> tokens[i].value]

\* lines 185-186: what result.arguments.resolve raises ("": nothing).  When
\* fault.op is "resolve", the call made by the analyze_call whose number is
\* fault.at raises fault.kind.
resolve_arguments(doc, arguments, E) ==
    IF fault.op = "resolve" /\ fault.at = Len(E.calls) THEN fault.kind
    ELSE resolve(doc, TokenValues(arguments))

\* lines 115-199: the diagnostics of a resolved doc
DocDiagnostics(doc, n, keyword_token, arguments, E) ==
    ArgumentBinding(
        resolve_arguments(doc, arguments, E), n, keyword_token, arguments,
        ErrorHandler(doc, range_from_node_or_token(n, keyword_token),
            Deprecation(doc, range_from_node_or_token(n, keyword_token),
                DefinitionErrors(doc, range_from_node_or_token(n, keyword_token), E))))

\* lines 106-199, E being the effect after the finder's diagnostics of the
\* lookup F were appended: [result, E, returned]
AfterLookup(F, n, keyword_token, arguments, E) ==
    IF E.exc # "" \/ IsNone(F.doc)
    THEN [result |-> F.doc, E |-> E, returned |-> FALSE]
    ELSE [result |-> F.doc,
          E |-> DocDiagnostics(F.doc, n, keyword_token, arguments, E),
          returned |-> FALSE]

LookupAtZero(F, n, keyword_token, arguments) ==
    AfterLookup(F, n, keyword_token, arguments,
                append_finder_diagnostics(
                    F.E, Range(Position(0, 0), Position(0, 0)), F.diagnostics))

\* lines 104-113
Lookup(F, n, keyword_token, arguments) ==
    AfterLookup(F, n, keyword_token, arguments,
                append_finder_diagnostics(
                    F.E, range_from_node_or_token(n, keyword_token), F.diagnostics))

TryAnalyzeVariables(keyword, n, keyword_token, arguments, E) ==
    Lookup(find_keyword(keyword, E), n, keyword_token, arguments)

\* The try block (lines 100-199): [result, E, returned]; returned says the
\* function left through "return None" for a variable-bearing token.
TryAnalyze(keyword, n, keyword_token, arguments, E) ==
    IF ~is_not_variable_token(keyword_token)
    THEN [result |-> NoKeywordDoc, E |-> E, returned |-> TRUE]
    ELSE Lookup(find_keyword(keyword, E), n, keyword_token, arguments)

HandleFailureConvertsAll(T, n, keyword_token) ==
    IF T.E.exc = "" THEN T
    ELSE [T EXCEPT !.E = append_diagnostics(
                             [T.E EXCEPT !.exc = ""],
                             range_from_node_or_token(n, keyword_token),
                             T.E.exc, "Error", T.E.exc, <<>>)]

\* The outer except clauses (lines 201-210).
HandleFailure(T, n, keyword_token) ==
    IF T.E.exc = "" \/ T.E.exc \in Reraised THEN T
    ELSE [T EXCEPT !.E = append_diagnostics(
                             [T.E EXCEPT !.exc = ""],
                             range_from_node_or_token(n, keyword_token),
                             T.E.exc, "Error", T.E.exc, <<>>)]

RECURSIVE _analyze_keyword_call(_, _, _, _, _, _)
RECURSIVE _analyse_run_keyword(_, _, _, _)
RECURSIVE RunKeywordsLoop(_, _, _, _)
RECURSIVE ElseBranches(_, _, _)

\* lines 212-215, H being what the try statement left: [result, E]
AnalyseNested(H, n, arguments, analyse_run_keywords) ==
    IF H.E.exc # "" \/ H.returned \/ IsNone(H.result) \/ ~analyse_run_keywords
    THEN [result |-> H.result, E |-> H.E]
    ELSE [result |-> H.result,
          E |-> _analyse_run_keyword(H.result, n, arguments, H.E).E]

\* [result, E]
_analyze_keyword_call(keyword, n, keyword_token, arguments, analyse_run_keywords, E) ==
    AnalyseNested(
        HandleFailure(
            TryAnalyze(keyword, n, keyword_token, arguments,
                       [E EXCEPT !.calls =
                            Append(@, Call(keyword, keyword_token, arguments,
                                           analyse_run_keywords))]),
            n, keyword_token),
        n, arguments, analyse_run_keywords)

----------------------------------------------------------------------------
(* Analyzer._analyse_run_keyword                                           *)

\* Index of the first token of value v in tokens, 0 when there is none.
FirstIndex(tokens, v) ==
    IF \E i \in 1..Len(tokens) : tokens[i].value = v
    THEN CHOOSE i \in 1..Len(tokens) :
             /\ tokens[i].value = v
             /\ \A j \in 1..(i - 1) : tokens[j].value # v
    ELSE 0

\* Number of leading tokens that are neither ELSE nor ELSE IF.
RECURSIVE ArgsBeforeElse(_)
ArgsBeforeElse(tokens) ==
    IF tokens = <<>> \/ Head(tokens).value \in {"ELSE", "ELSE IF"} THEN 0
    ELSE 1 + ArgsBeforeElse(Tail(tokens))

\* skip_args (lines 277-287): the tokens it returns ...
SkippedArgs(tokens) == SubSeq(tokens, 1, ArgsBeforeElse(tokens))

AfterSkippedArgsKeepsSkipped(tokens) == SubSeq(tokens, 1, ArgsBeforeElse(tokens))

\* ... and what it leaves in argument_tokens.
AfterSkippedArgs(tokens) == SubSeq(tokens, ArgsBeforeElse(tokens) + 1, Len(tokens))

\* lines 261-269, k being the index of the first AND among the tokens that
\* follow the keyword token (0: none): the arguments of the call ...
SegmentArgs(rest, k, has_and) ==
    IF k > 0 THEN SubSeq(rest, 1, k - 1) ELSE IF has_and THEN rest ELSE <<>>

\* ... and the tokens left for the next iteration.
AfterSegment(rest, k, has_and) ==
    IF k > 0 THEN SubSeq(rest, k + 1, Len(rest)) ELSE IF has_and THEN <<>> ELSE rest

\* Run Keywords (lines 243-273): [ret, E]
RunKeywordsLoop(n, tokens, has_and, E) ==
    IF E.exc # "" \/ tokens = <<>> THEN [ret |-> <<>>, E |-> E]
    ELSE IF Head(tokens).value = "AND"
    THEN RunKeywordsLoop(n, Tail(tokens), has_and,
             append_diagnostics(E, range_from_token(Head(tokens)),
                                "Incorrect use of AND", "Error", "", <<>>))
    ELSE IF ~is_not_variable_token(Head(tokens))
    THEN RunKeywordsLoop(n, Tail(tokens), has_and, E)
    ELSE RunKeywordsLoop(
             n,
             AfterSegment(Tail(tokens), FirstIndex(Tail(tokens), "AND"), has_and),
             has_and \/ FirstIndex(Tail(tokens), "AND") > 0,
             _analyze_keyword_call(
                 unescape(Head(tokens).value), n, Head(tokens),
                 SegmentArgs(Tail(tokens), FirstIndex(Tail(tokens), "AND"), has_and),
                 TRUE, E).E)

\* lines 323-326 and 341-344, C being what the branch keyword's
\* analyze_call returned and tokens what follows the keyword: recurse when
\* the keyword is a run keyword, then skip_args.  [ret, E]
NestedBranch(C, n, tokens) ==
    IF C.E.exc = "" /\ ~IsNone(C.result) /\ is_any_run_keyword(C.result)
    THEN _analyse_run_keyword(C.result, n, tokens, C.E)
    ELSE [ret |-> tokens, E |-> C.E]

SkipRest(R) == [ret |-> AfterSkippedArgs(R.ret), E |-> R.E]

\* The ELSE IF branch continues the loop of lines 310-346.
ContinueBranches(n, B) == ElseBranches(n, B.ret, B.E)

\* The loop over the ELSE / ELSE IF branches (lines 310-346): [ret, E]
ElseBranches(n, tokens, E) ==
    IF E.exc # "" \/ tokens = <<>> THEN [ret |-> tokens, E |-> E]
    ELSE IF tokens[1].value = "ELSE" /\ Len(tokens) > 1
    THEN SkipRest(NestedBranch(
             _analyze_keyword_call(unescape(tokens[2].value), n, tokens[2],
                                   SubSeq(tokens, 3, Len(tokens)), FALSE, E),
             n, SubSeq(tokens, 3, Len(tokens))))
    ELSE IF tokens[1].value = "ELSE IF" /\ Len(tokens) > 2
    THEN ContinueBranches(n, SkipRest(NestedBranch(
             _analyze_keyword_call(unescape(tokens[3].value), n, tokens[3],
                                   SubSeq(tokens, 4, Len(tokens)), FALSE, E),
             n, SubSeq(tokens, 4, Len(tokens)))))
    ELSE [ret |-> tokens, E |-> E]

\* lines 291-308, F being the lookup of line 289 and kwt, rest the
\* keyword token and what follows it: [ret, E]
FirstBranchOf(F, n, kwt, rest) ==
    IF F.E.exc # "" THEN [ret |-> rest, E |-> F.E]
    ELSE IF ~IsNone(F.doc) /\ is_any_run_keyword(F.doc)
    THEN _analyse_run_keyword(F.doc, n, rest, F.E)
    ELSE [ret |-> AfterSkippedArgs(rest),
          E |-> IF is_not_variable_token(kwt)
                THEN _analyze_keyword_call(unescape(kwt.value), n, kwt,
                                           SkippedArgs(rest), FALSE, F.E).E
                ELSE F.E]

\* The first branch of Run Keyword If (lines 289-308): [ret, E]
FirstBranch(n, tokens, E) ==
    FirstBranchOf(find_keyword(tokens[2].value, E), n, tokens[2],
                  SubSeq(tokens, 3, Len(tokens)))

RunKeywordKeepsName(n, tokens, E) ==
    [ret |-> Tail(tokens),
     E |-> _analyze_keyword_call(unescape(tokens[1].value), n, tokens[1],
                                 tokens, TRUE, E).E]

\* lines 226-230
RunKeyword(n, tokens, E) ==
    [ret |-> Tail(tokens),
     E |-> _analyze_keyword_call(unescape(tokens[1].value), n, tokens[1],
                                 Tail(tokens), TRUE, E).E]

RunKeywordWithConditionKeepsName(cond_count, n, tokens, E) ==
    [ret |-> SubSeq(tokens, cond_count + 2, Len(tokens)),
     E |-> _analyze_keyword_call(unescape(tokens[cond_count + 1].value), n,
                                 tokens[cond_count + 1],
                                 SubSeq(tokens, cond_count + 1, Len(tokens)),
                                 TRUE, E).E]

RunKeywordWithConditionAtOne(cond_count, n, tokens, E) ==
    [ret |-> SubSeq(tokens, 3, Len(tokens)),
     E |-> _analyze_keyword_call(unescape(tokens[2].value), n, tokens[2],
                                 SubSeq(tokens, 3, Len(tokens)), TRUE, E).E]

\* lines 236-242
RunKeywordWithCondition(cond_count, n, tokens, E) ==
    [ret |-> SubSeq(tokens, cond_count + 2, Len(tokens)),
     E |-> _analyze_keyword_call(unescape(tokens[cond_count + 1].value), n,
                                 tokens[cond_count + 1],
                                 SubSeq(tokens, cond_count + 2, Len(tokens)),
                                 TRUE, E).E]

\* [ret, E]: ret is the returned token list (meaningless when E.exc # "")
_analyse_run_keyword(keyword_doc, n, tokens, E) ==
    IF IsNone(keyword_doc) \/ ~is_any_run_keyword(keyword_doc)
    THEN [ret |-> tokens, E |-> E]
    ELSE IF /\ is_run_keyword(keyword_doc)
            /\ Len(tokens) > 0
            /\ is_not_variable_token(tokens[1])
    THEN RunKeyword(n, tokens, E)
    ELSE IF /\ is_run_keyword_with_condition(keyword_doc)
            /\ Len(tokens) > run_keyword_condition_count(keyword_doc)
            /\ is_not_variable_token(tokens[run_keyword_condition_count(keyword_doc) + 1])
    THEN RunKeywordWithCondition(run_keyword_condition_count(keyword_doc), n, tokens, E)
    ELSE IF is_run_keywords(keyword_doc)
    THEN RunKeywordsLoop(n, tokens, FALSE, E)
    ELSE IF is_run_keyword_if(keyword_doc) /\ Len(tokens) > 1
    THEN ContinueBranches(n, FirstBranch(n, tokens, E))
    ELSE [ret |-> tokens, E |-> E]

----------------------------------------------------------------------------
(* Analyzer.visit_KeywordCall *)

\* value.get_token(RobotToken.ASSIGN)
AssignToken(n) == IF n.assign = <<>> THEN NoToken ELSE n.assign[1]

KeywordCallAlwaysAnalysed(n, E) ==
    _analyze_keyword_call(n.keyword.value, n, n.keyword, n.args, TRUE, E).E

\* lines 401-412
KeywordCallDiagnostics(n, E) ==
    IF n.assign # <<>> /\ n.keyword = NoToken
    THEN append_diagnostics(E, range_from_node_or_token(n, AssignToken(n)),
                            "Keyword name cannot be empty.", "Error",
                            "KeywordError", <<>>)
    ELSE _analyze_keyword_call(n.keyword.value, n, n.keyword, n.args, TRUE, E).E

\* lines 414-421; "not self.current_testcase_or_keyword_name" holds of None
\* and of the empty string
Unreachable(n, E) ==
    IF E.name \in {None, ""}
    THEN append_diagnostics(E, range_from_node_or_token(n, AssignToken(n)),
                            "Code is unreachable.", "Hint", "", <<"Unnecessary">>)
    ELSE E

visit_KeywordCall(n, E) ==
    Unreachable(n, KeywordCallDiagnostics(n, E))

----------------------------------------------------------------------------
(* The statements the analysis is run on *)

\* The tokens of the values vals, laid out on line lineno from column col
\* with four blanks between two tokens.
RECURSIVE TokensAt(_, _, _)
TokensAt(vals, lineno, col) ==
    IF vals = <<>> THEN <<>>
    ELSE <<Token(Head(vals), lineno, col)>>
         \o TokensAt(Tail(vals), lineno, col + Len(Head(vals)) + 4)

\* "    <keyword>    <arg> ..." on line 1
KeywordCall(keyword, vals) ==
    Statement("KeywordCall", <<>>, Token(keyword, 1, 4),
              TokensAt(vals, 1, 4 + Len(keyword) + 4))

\* A keyword of every family, a keyword of family None, an unknown keyword.
Keywords ==
    {"Run Keyword If", "Run Keyword", "Run Keywords",
     "Wait Until Keyword Succeeds", "Log", "Unknown"}

PlainLine == Line("none", <<>>)

IgnoreLine == Line("sp2", <<"robotcode", ":", "ignore">>)

Document(lines) == [present |-> TRUE, lines |-> lines]

\* namespace.document is None
NoDocument == [present |-> FALSE, lines |-> <<>>]

NoFault == [op |-> "", at |-> 0, kind |-> ""]

\* The doc the namespace holds for a name (None when it holds none).
DocNamed(name) ==
    IF \E d \in NamespaceKeywords : d.name = name
    THEN CHOOSE d \in NamespaceKeywords : d.name = name
    ELSE NoKeywordDoc

----------------------------------------------------------------------------
(* State machine of one statement: it is parsed; then the run-keyword      *)
(* state machine is applied to its arguments, or the statement is visited. *)

\* The statement is a call "<kw>    <prefix>    <vals>" of one of the
\* keywords, vals being at most n values of arguments.
InitWith(keywords, prefix, arguments, n, names, documents, faults) ==
    /\ pc = "parsed"
    /\ \E kw \in keywords, k \in 0..n :
           \E vals \in [1..k -> arguments] : node = KeywordCall(kw, prefix \o vals)
    /\ document \in documents
    /\ current_testcase_or_keyword_name \in names
    /\ fault \in faults
    /\ results = <<>>
    /\ calls = <<>>
    /\ lookups = <<>>
    /\ ret = <<>>
    /\ exc = ""
    /\ appended = <<>>
    /\ tasks = <<>>
    /\ analyzers = <<>>
    /\ lists = <<>>

Init ==
    InitWith(Keywords, <<>>,
             {"${c}", "Log", "Run Keyword", "Run Keywords", "AND", "ELSE", "ELSE IF"},
             MaxArgs,
             {"TC"}, {Document(<<PlainLine>>)}, {NoFault})

\* await self._analyse_run_keyword(doc, node, argument_tokens), doc being
\* the doc of the statement's keyword
AnalyseRunKeyword ==
    /\ pc = "parsed"
    /\ LET R == _analyse_run_keyword(
                    DocNamed(node.keyword.value), node, node.args,
                    Analyzer(document, current_testcase_or_keyword_name))
       IN  /\ pc' = IF R.E.exc = "" THEN "returned" ELSE "machine raised"
           /\ ret' = IF R.E.exc = "" THEN R.ret ELSE <<>>
           /\ results' = R.E.results
           /\ calls' = R.E.calls
           /\ lookups' = R.E.lookups
           /\ exc' = R.E.exc
    /\ UNCHANGED <<node, document, current_testcase_or_keyword_name, fault,
                   appended, tasks, analyzers, lists>>

\* await self.visit_KeywordCall(node)
VisitKeywordCall ==
    /\ pc = "parsed"
    /\ LET E == visit_KeywordCall(
                    node, Analyzer(document, current_testcase_or_keyword_name))
       IN  /\ pc' = IF E.exc = "" THEN "visited" ELSE "raised"
           /\ results' = E.results
           /\ calls' = E.calls
           /\ lookups' = E.lookups
           /\ exc' = E.exc
    /\ UNCHANGED <<node, document, current_testcase_or_keyword_name, fault, ret,
                   appended, tasks, analyzers, lists>>

Next == AnalyseRunKeyword \/ VisitKeywordCall

Spec == Init /\ [][Next]_vars

SpecRunKeywordIf ==
    InitWith({"Run Keyword If"}, <<>>,
             {"${c}", "Log", "Run Keyword", "ELSE", "ELSE IF"}, MaxArgsIf,
             {"TC"}, {Document(<<PlainLine>>)}, {NoFault})
        /\ [][Next]_vars

SpecRunKeywords ==
    InitWith({"Run Keywords"}, <<>>, {"AND", "${kw}", "Log", "Unknown"},
             MaxArgsKeywords,
             {"TC"}, {Document(<<PlainLine>>)}, {NoFault})
        /\ [][Next]_vars

SpecRunKeyword ==
    InitWith({"Run Keyword", "Run Keyword And Expect Error",
              "Wait Until Keyword Succeeds", "Log", "Unknown"}, <<>>,
             {"${kw}", "Log", "\\Log", "Unknown", "Run Keyword"}, MaxArgsKeyword,
             {"TC"}, {Document(<<PlainLine>>)}, {NoFault})
        /\ [][Next]_vars

SpecScenario ==
    InitWith({"Run Keyword If"}, <<"${c}">>,
             {"${c}", "Log", "Old Log", "Unknown", "ELSE"}, MaxArgsScenario,
             {None, "", "TC"},
             {Document(<<PlainLine>>), Document(<<IgnoreLine>>)}, {NoFault})
        /\ [][Next]_vars

\* Run Keyword If    ${c}    ..., the branches being run keywords themselves
SpecNestedIf ==
    InitWith({"Run Keyword If"}, <<"${c}">>,
             {"Log", "Run Keyword", "Run Keywords", "ELSE", "ELSE IF"},
             MaxArgsNested,
             {"TC"}, {Document(<<PlainLine>>)}, {NoFault})
        /\ [][Next]_vars

\* Calls of keywords whose definition has errors (Broken Kw, Dyn Kw, Init Kw) and of
\* deprecated keywords (Old Log, Older Log), directly and under run keywords
SpecDocs ==
    InitWith({"Broken Kw", "Dyn Kw", "Init Kw", "Old Log", "Older Log", "Log",
              "Run Keyword", "Run Keyword If"}, <<>>,
             {"${c}", "Broken Kw", "Dyn Kw", "Old Log", "Older Log"}, MaxArgsDocs,
             {"TC"}, {Document(<<PlainLine>>)}, {NoFault})
        /\ [][Next]_vars

----------------------------------------------------------------------------
(* Two successive append_diagnostics on the buffer of one pass *)

Documents ==
    {NoDocument}
        \cup UNION { { Document(lines) :
                        lines \in [1..k -> { PlainLine,
                                             IgnoreLine,
                                             Line("sp1", <<"robotcode", ":", "ignore">>),
                                             Line("bol", <<"robotcode", ":", "warn">>) }] } :
                    k \in 1..MaxLines }

InitAppend ==
    /\ pc = "first"
    /\ document \in Documents
    /\ node = KeywordCall("Log", <<>>)
    /\ current_testcase_or_keyword_name = "TC"
    /\ fault = NoFault
    /\ results = <<>>
    /\ calls = <<>>
    /\ lookups = <<>>
    /\ ret = <<>>
    /\ exc = ""
    /\ appended = <<>>
    /\ tasks = <<>>
    /\ analyzers = <<>>
    /\ lists = <<>>

\* The buffer after await self.append_diagnostics(range, "m", ERROR, ...)
AppendTo(buffer, range) ==
    append_diagnostics(
        [Analyzer(document, current_testcase_or_keyword_name) EXCEPT !.results = buffer],
        range, "m", "Error", "KeywordError", <<>>)

\* await self.append_diagnostics(range=Range((s, 0), (e, 0)), ...);
\* appended remembers the range and the buffer before the call.
AppendDiagnostics ==
    /\ pc \in {"first", "second"}
    /\ \E s \in 0..MaxLines, e \in 0..MaxLines :
           /\ s <= e
           /\ results' = AppendTo(results, Range(Position(s, 0), Position(e, 0))).results
           /\ exc' = AppendTo(results, Range(Position(s, 0), Position(e, 0))).exc
           /\ appended' = << [range |-> Range(Position(s, 0), Position(e, 0)),
                              before |-> results] >>
    /\ pc' = IF exc' # "" THEN "raised" ELSE IF pc = "first" THEN "second" ELSE "appended"
    /\ UNCHANGED <<node, document, current_testcase_or_keyword_name, fault, ret,
                   calls, lookups, tasks, analyzers, lists>>

NextAppend == AppendDiagnostics

SpecAppend == InitAppend /\ [][NextAppend]_vars

----------------------------------------------------------------------------
(* Analyzer.get: two passes in flight at a time.  A model is one test case *)
(* "TC" whose body is the keyword calls model[1], model[2], ..., the call  *)
(* model[i] standing on line i + 1 of the document.  A pass runs from one  *)
(* suspension point to the next in one step.                               *)

Namespace(keywords, doc) == [keywords |-> keywords, document |-> doc]

\* KeywordFinder(namespace)
KeywordFinder(namespace) == [namespace |-> namespace, diagnostics |-> <<>>]

PlainDocument == Document([l \in 1..(MaxNodes + 1) |-> PlainLine])

NamespaceA == Namespace({"Log"}, PlainDocument)

NamespaceB == Namespace({"Log", "Unknown"}, PlainDocument)

Models == UNION { [1..k -> {"Log", "Unknown"}] : k \in 1..MaxNodes }

\* An Analyzer object on which get() has not been called yet.
NewAnalyzer ==
    [_results |-> 0, _namespace |-> Namespace({}, NoDocument),
     current_testcase_or_keyword_name |-> None, finder |-> KeywordFinder(Namespace({}, NoDocument))]

\* The pass of one get(model, namespace, cancelation_token) call on the
\* Analyzer object self; token is the state of its cancelation token.
Pass(self, model, namespace) ==
    [self |-> self, model |-> model, namespace |-> namespace,
     token |-> "live", pc |-> "start", i |-> 1, returned |-> 0]

InitGet ==
    /\ pc = "get"
    /\ \E m1 \in Models, m2 \in Models, other \in {1, 2} :
           tasks = <<Pass(1, m1, NamespaceA), Pass(other, m2, NamespaceB)>>
    /\ analyzers = <<NewAnalyzer, NewAnalyzer>>
    /\ lists = <<>>
    /\ node = KeywordCall("Log", <<>>)
    /\ document = NoDocument
    /\ current_testcase_or_keyword_name = None
    /\ fault = NoFault
    /\ results = <<>>
    /\ calls = <<>>
    /\ lookups = <<>>
    /\ ret = <<>>
    /\ exc = ""
    /\ appended = <<>>

UnchangedByGet ==
    UNCHANGED <<pc, node, document, current_testcase_or_keyword_name, fault,
                results, calls, lookups, ret, exc, appended>>

\* The diagnostics a finder on namespace leaves for a lookup of name.
FinderDiagnostics(namespace, name) ==
    IF name \in namespace.keywords THEN <<>>
    ELSE << [message |-> "No keyword with name found.", severity |-> "Error",
             code |-> "KeywordError/not_found"] >>

GetStartKeepsList(t) ==
    /\ tasks[t].pc = "start"
    /\ lists' = IF analyzers[tasks[t].self]._results = 0
                THEN Append(lists, <<>>)
                ELSE [lists EXCEPT ![analyzers[tasks[t].self]._results] = <<>>]
    /\ analyzers' = [analyzers EXCEPT ![tasks[t].self] =
           [_results |-> IF analyzers[tasks[t].self]._results = 0
                         THEN Len(lists) + 1
                         ELSE analyzers[tasks[t].self]._results,
            _namespace |-> tasks[t].namespace,
            current_testcase_or_keyword_name |-> None,
            finder |-> KeywordFinder(tasks[t].namespace)]]
    /\ tasks' = [tasks EXCEPT ![t].pc = "enter"]
    /\ UnchangedByGet

\* lines 39-43
GetStart(t) ==
    /\ tasks[t].pc = "start"
    /\ lists' = Append(lists, <<>>)
    /\ analyzers' = [analyzers EXCEPT ![tasks[t].self] =
           [_results |-> Len(lists) + 1,
            _namespace |-> tasks[t].namespace,
            current_testcase_or_keyword_name |-> None,
            finder |-> KeywordFinder(tasks[t].namespace)]]
    /\ tasks' = [tasks EXCEPT ![t].pc = "enter"]
    /\ UnchangedByGet

\* visit_TestCase, line 442
EnterTestCase(t) ==
    /\ tasks[t].pc = "enter"
    /\ analyzers' = [analyzers EXCEPT
                         ![tasks[t].self].current_testcase_or_keyword_name = "TC"]
    /\ tasks' = [tasks EXCEPT ![t].pc = "lookup"]
    /\ UNCHANGED lists
    /\ UnchangedByGet

\* line 104: result = await self.finder.find_keyword(keyword)
FindKeyword(t) ==
    /\ tasks[t].pc = "lookup"
    /\ analyzers' = [analyzers EXCEPT ![tasks[t].self].finder.diagnostics =
           FinderDiagnostics(analyzers[tasks[t].self].finder.namespace,
                             tasks[t].model[tasks[t].i])]
    /\ tasks' = [tasks EXCEPT ![t].pc = "report"]
    /\ UNCHANGED lists
    /\ UnchangedByGet

\* lines 106-113 and 414-421 for the call model[i] of a pass, on the
\* Analyzer object a, with the keyword token Token(model[i], i + 1, 4)
ReportCall(a, model, i) ==
    Unreachable(
        KeywordCall(model[i], <<>>),
        append_finder_diagnostics(
            [Analyzer(a._namespace.document, a.current_testcase_or_keyword_name)
                 EXCEPT !.results = lists[a._results]],
            range_from_token(Token(model[i], i + 1, 4)),
            a.finder.diagnostics)).results

\* lines 106-113, then lines 414-421 of visit_KeywordCall
Report(t) ==
    /\ tasks[t].pc = "report"
    /\ lists' = [lists EXCEPT ![analyzers[tasks[t].self]._results] =
                     ReportCall(analyzers[tasks[t].self], tasks[t].model, tasks[t].i)]
    /\ tasks' = [tasks EXCEPT ![t].i = @ + 1,
                              ![t].pc = IF tasks[t].i = Len(tasks[t].model)
                                        THEN "leave" ELSE "lookup"]
    /\ UNCHANGED analyzers
    /\ UnchangedByGet

\* visit_TestCase, line 446
LeaveTestCase(t) ==
    /\ tasks[t].pc = "leave"
    /\ analyzers' = [analyzers EXCEPT
                         ![tasks[t].self].current_testcase_or_keyword_name = None]
    /\ tasks' = [tasks EXCEPT ![t].pc = "return"]
    /\ UNCHANGED lists
    /\ UnchangedByGet

\* line 46: return self._results
GetReturn(t) ==
    /\ tasks[t].pc = "return"
    /\ tasks' = [tasks EXCEPT ![t].pc = "done",
                              ![t].returned = analyzers[tasks[t].self]._results]
    /\ UNCHANGED <<analyzers, lists>>
    /\ UnchangedByGet

NextGet ==
    \E t \in {1, 2} :
        \/ GetStart(t)
        \/ EnterTestCase(t)
        \/ FindKeyword(t)
        \/ Report(t)
        \/ LeaveTestCase(t)
        \/ GetReturn(t)

SpecGet == InitGet /\ [][NextGet]_vars

----------------------------------------------------------------------------
(* One pass whose cancelation token the caller may cancel at any time.     *)
(* get() stores the token (line 41); the visitor base class checks it      *)
(* before it visits a node.                                                *)

InitCancel ==
    /\ pc = "get"
    /\ \E m \in Models, ns \in {NamespaceA, NamespaceB} : tasks = <<Pass(1, m, ns)>>
    /\ analyzers = <<NewAnalyzer>>
    /\ lists = <<>>
    /\ node = KeywordCall("Log", <<>>)
    /\ document = NoDocument
    /\ current_testcase_or_keyword_name = None
    /\ fault = NoFault
    /\ results = <<>>
    /\ calls = <<>>
    /\ lookups = <<>>
    /\ ret = <<>>
    /\ exc = ""
    /\ appended = <<>>

\* The caller cancels the token of a pass that has not ended.
Cancel(t) ==
    /\ tasks[t].token = "live"
    /\ tasks[t].pc \notin {"done", "cancelled"}
    /\ tasks' = [tasks EXCEPT ![t].token = "cancelled"]
    /\ UNCHANGED <<analyzers, lists>>
    /\ UnchangedByGet

\* The pass is about to visit a node (the test case, a keyword call): the
\* token lets it.
Running(t) ==
    ~(tasks[t].pc \in {"enter", "lookup"} /\ tasks[t].token = "cancelled")

\* AsyncVisitor.visit of a pass whose token is cancelled: the visit raises,
\* the finally clause of visit_TestCase runs, get() raises.
VisitCancelled(t) ==
    /\ ~Running(t)
    /\ analyzers' = [analyzers EXCEPT
                         ![tasks[t].self].current_testcase_or_keyword_name = None]
    /\ tasks' = [tasks EXCEPT ![t].pc = "cancelled"]
    /\ UNCHANGED lists
    /\ UnchangedByGet

NextCancel ==
    \E t \in {1} :
        \/ Cancel(t)
        \/ VisitCancelled(t)
        \/ Running(t) /\ GetStart(t)
        \/ Running(t) /\ EnterTestCase(t)
        \/ Running(t) /\ FindKeyword(t)
        \/ Running(t) /\ Report(t)
        \/ Running(t) /\ LeaveTestCase(t)
        \/ Running(t) /\ GetReturn(t)

SpecCancel == InitCancel /\ [][NextCancel]_vars

----------------------------------------------------------------------------
(* Two get() calls on one Analyzer object, one after the other: the second *)
(* is made when the first has returned or has raised.                      *)

InitSuccessive ==
    /\ pc = "get"
    /\ \E m1 \in Models, m2 \in Models :
           \E ns1 \in {NamespaceA, NamespaceB}, ns2 \in {NamespaceA, NamespaceB} :
               tasks = <<Pass(1, m1, ns1), Pass(1, m2, ns2)>>
    /\ analyzers = <<NewAnalyzer>>
    /\ lists = <<>>
    /\ node = KeywordCall("Log", <<>>)
    /\ document = NoDocument
    /\ current_testcase_or_keyword_name = None
    /\ fault = NoFault
    /\ results = <<>>
    /\ calls = <<>>
    /\ lookups = <<>>
    /\ ret = <<>>
    /\ exc = ""
    /\ appended = <<>>

NextSuccessive ==
    \/ NextCancel
    \/ /\ tasks[1].pc \in {"done", "cancelled"}
       /\ \E t \in {2} :
              \/ GetStart(t)
              \/ EnterTestCase(t)
              \/ FindKeyword(t)
              \/ Report(t)
              \/ LeaveTestCase(t)
              \/ GetReturn(t)

SpecSuccessive == InitSuccessive /\ [][NextSuccessive]_vars

----------------------------------------------------------------------------
(* One statement analysed while one finder lookup of the pass fails *)

\* KeywordError stands for the ordinary failures; the others are the
\* cancellation of the task (asyncio.CancelledError), the process' exit and
\* interrupt, and the interpreter running out of memory.
FaultKinds ==
    {"KeywordError", "CancelledError", "SystemExit", "KeyboardInterrupt", "MemoryError"}

\* The awaited operations that can fail: a finder lookup, an argument
\* resolution, and the document's get_lines, where the task can be
\* cancelled.
Faults ==
    {NoFault}
        \cup { [op |-> o, at |-> k, kind |-> f] :
                   o \in {"find_keyword", "resolve"}, k \in 1..MaxFaultAt, f \in FaultKinds }
        \cup { [op |-> "get_lines", at |-> k, kind |-> "CancelledError"] : k \in 1..MaxFaultAt }

SpecFault ==
    InitWith({"Run Keyword If", "Run Keyword", "Log"}, <<>>,
             {"${c}", "Log", "Run Keyword", "ELSE"}, MaxArgsFault,
             {"TC"}, {Document(<<PlainLine>>)}, Faults)
        /\ [][Next]_vars

----------------------------------------------------------------------------
(* The visitors of the other statements, and of the blocks *)

\* lines 350-364
visit_Fixture(n, E) ==
    IF n.keyword # NoToken /\ is_not_variable_token(n.keyword)
    THEN _analyze_keyword_call(n.keyword.value, n, n.keyword, n.args, TRUE, E).E
    ELSE E

\* lines 366-378
visit_TestTemplate(n, E) ==
    IF n.keyword # NoToken /\ is_not_variable_token(n.keyword)
    THEN _analyze_keyword_call(n.keyword.value, n, n.keyword, <<>>, TRUE, E).E
    ELSE E

\* lines 380-392
visit_Template(n, E) ==
    IF n.keyword # NoToken /\ is_not_variable_token(n.keyword)
    THEN _analyze_keyword_call(n.keyword.value, n, n.keyword, <<>>, TRUE, E).E
    ELSE E

\* A TestCase or Keyword block: keyword is the name token of its header,
\* args are the tokens of the [Arguments] setting of its body.
Block(kind, name, arguments, lineno) ==
    Statement(kind, <<>>, Token(name, lineno, 0),
              TokensAt(arguments, lineno, Len(name) + 4))

IsBlock(n) == n.kind \in {"TestCase", "Keyword"}

\* is_embedded_keyword: the name holds an embedded argument
is_embedded_keyword(name) == name \in {"Add ${n} items"}

\* lines 432-440
TestCaseName(n, E) ==
    IF n.keyword.value = ""
    THEN append_diagnostics(E, range_from_node_or_token(n, n.keyword),
                            "Test case name cannot be empty.", "Error",
                            "KeywordError", <<>>)
    ELSE E

\* lines 455-476
KeywordName(n, E) ==
    IF n.keyword.value # ""
    THEN IF is_embedded_keyword(n.keyword.value) /\ n.args # <<>>
         THEN append_diagnostics(E, range_from_node_or_token(n, n.keyword),
                                 "Keyword cannot have both normal and embedded arguments.",
                                 "Error", "KeywordError", <<>>)
         ELSE E
    ELSE append_diagnostics(E, range_from_node_or_token(n, n.keyword),
                            "Keyword name cannot be empty.", "Error",
                            "KeywordError", <<>>)

\* lines 442 and 478: the name is set unless the header's diagnostic raised
SetName(n, E) ==
    IF E.exc # "" THEN E ELSE [E EXCEPT !.name = n.keyword.value]

\* visit_TestCase and visit_Keyword up to the visit of the children
EnterBlockOf(n, E) ==
    SetName(n, IF n.kind = "TestCase" THEN TestCaseName(n, E) ELSE KeywordName(n, E))

LeaveBlockKeepsNameOnRaise(E) ==
    IF E.exc # "" THEN E ELSE [E EXCEPT !.name = None]

\* lines 445-446 and 481-482: the finally clause, run when the children
\* were visited and when the visit of one raised
LeaveBlockOf(E) == [E EXCEPT !.name = None]

\* AsyncVisitor.visit: the visitor of the node's class
visit_statement(n, E) ==
    CASE n.kind = "KeywordCall" -> visit_KeywordCall(n, E)
      [] n.kind = "Fixture" -> visit_Fixture(n, E)
      [] n.kind = "TestTemplate" -> visit_TestTemplate(n, E)
      [] n.kind = "Template" -> visit_Template(n, E)

\* generic_visit of a block visiting one child: the finally clause runs
\* when the child's visit raises
Propagate(E) == IF E.exc # "" THEN LeaveBlockOf(E) ELSE E

----------------------------------------------------------------------------
(* A pass of get() over a file *)

\* A line of the file: a block header or a statement, as values.
FileLine(kind, assign, keyword, vals) ==
    [kind |-> kind, assign |-> assign, keyword |-> keyword, vals |-> vals]

Headers ==
    { FileLine("TestCase", <<>>, "", <<>>),
      FileLine("TestCase", <<>>, "TC", <<>>),
      FileLine("Keyword", <<>>, "", <<>>),
      FileLine("Keyword", <<>>, "Add ${n} items", <<>>),
      FileLine("Keyword", <<>>, "Add ${n} items", <<"${m}">>) }

Statements ==
    { FileLine("KeywordCall", <<>>, "Log", <<"${c}">>),
      FileLine("KeywordCall", <<>>, "Log", <<>>),
      FileLine("KeywordCall", <<>>, "Unknown", <<>>),
      FileLine("KeywordCall", <<>>, "Old Log", <<"${c}">>),
      FileLine("KeywordCall", <<>>, "${kw}", <<"Unknown">>),
      FileLine("KeywordCall", <<>>, "Run Keyword", <<"Log">>),
      FileLine("KeywordCall", <<>>, "Run Keyword If", <<"${c}">>),
      FileLine("KeywordCall", <<>>, "Run Keyword", <<"${kw}", "Unknown">>),
      FileLine("KeywordCall", <<>>, "Run Keyword", <<"Broken Kw", "${c}", "${c}">>),
      FileLine("KeywordCall", <<>>, "Run Keywords", <<"${kw}", "AND", "Unknown">>),
      FileLine("KeywordCall", <<>>, "Run Keyword If", <<"${c}", "${kw}", "ELSE", "${kw}">>),
      FileLine("KeywordCall", <<"${x}=">>, "", <<>>),
      FileLine("KeywordCall", <<"${x}=">>, "Unknown", <<>>),
      FileLine("Fixture", <<>>, "Log", <<>>),
      FileLine("TestTemplate", <<>>, "Log", <<>>),
      FileLine("Template", <<>>, "Log", <<>>) }

\* The node of a line: a block, or a statement "    <assign>    <keyword>
\* <vals>" whose first token is at column 4.
NodeOn(l, lineno) ==
    IF l.kind \in {"TestCase", "Keyword"}
    THEN Block(l.kind, l.keyword, l.vals, lineno)
    ELSE Statement(l.kind,
                   TokensAt(l.assign, lineno, 4),
                   IF l.keyword = "" THEN NoToken
                   ELSE Token(l.keyword, lineno,
                              IF l.assign = <<>> THEN 4 ELSE 4 + Len(l.assign[1]) + 4),
                   TokensAt(l.vals, lineno,
                            (IF l.assign = <<>> THEN 4 ELSE 4 + Len(l.assign[1]) + 4)
                                + Len(l.keyword) + 4))

\* no node visited yet
NoNode == Statement("", <<>>, NoToken, <<>>)

\* get() is called on a file of at most MaxFileLines lines: tasks[1] holds
\* the file (model), the index of the next line to visit (i) and the value
\* current_testcase_or_keyword_name had before the last block was entered.
\* No awaited operation fails, or the one whose number is fault.at, at most
\* MaxFaultAt, is cancelled.
InitPass ==
    /\ pc = "get"
    /\ \E k \in 0..MaxFileLines :
           \E f \in [1..k -> Headers \cup Statements] :
               tasks = << [model |-> [i \in 1..k |-> NodeOn(f[i], i)],
                           i |-> 1, before |-> None] >>
    /\ node = NoNode
    /\ document = Document([i \in 1..MaxFileLines |-> PlainLine])
    /\ current_testcase_or_keyword_name = None
    /\ fault \in {NoFault}
           \cup { [op |-> o, at |-> k, kind |-> "CancelledError"] :
                      o \in {"find_keyword", "resolve", "get_lines"},
                      k \in 1..MaxFaultAt }
    /\ results = <<>>
    /\ calls = <<>>
    /\ lookups = <<>>
    /\ ret = <<>>
    /\ exc = ""
    /\ appended = <<>>
    /\ analyzers = <<>>
    /\ lists = <<>>

\* The Analyzer object as the state holds it.
Self ==
    [results |-> results, document |-> document,
     name |-> current_testcase_or_keyword_name,
     calls |-> calls, lookups |-> lookups, exc |-> ""]

\* What the visit of a node that left the Analyzer as E leaves in the
\* state, appended being the diagnostics the visit appended; where is the
\* position the pass is at when the visit did not raise.
Becomes(E, where) ==
    /\ pc' = IF E.exc = "" THEN where ELSE "raised"
    /\ results' = E.results
    /\ appended' = SubSeq(E.results, Len(results) + 1, Len(E.results))
    /\ current_testcase_or_keyword_name' = E.name
    /\ calls' = E.calls
    /\ lookups' = E.lookups
    /\ exc' = E.exc

NextLine == tasks[1].model[tasks[1].i]

\* lines 39-44: get() up to the visit of the model
PassGet ==
    /\ pc = "get"
    /\ pc' = "section"
    /\ results' = <<>>
    /\ current_testcase_or_keyword_name' = None
    /\ UNCHANGED <<node, document, fault, calls, lookups, ret, exc, appended,
                   tasks, analyzers, lists>>

\* visit of a statement that is in no block
VisitStatement ==
    /\ pc = "section"
    /\ tasks[1].i <= Len(tasks[1].model)
    /\ ~IsBlock(NextLine)
    /\ Becomes(visit_statement(NextLine, Self), "section")
    /\ node' = NextLine
    /\ tasks' = [tasks EXCEPT ![1].i = @ + 1]
    /\ UNCHANGED <<document, fault, ret, analyzers, lists>>

\* visit_TestCase / visit_Keyword up to the visit of the children
EnterBlock ==
    /\ pc = "section"
    /\ tasks[1].i <= Len(tasks[1].model)
    /\ IsBlock(NextLine)
    /\ Becomes(EnterBlockOf(NextLine, Self), "block")
    /\ node' = NextLine
    /\ tasks' = [tasks EXCEPT ![1].i = @ + 1,
                              ![1].before = current_testcase_or_keyword_name]
    /\ UNCHANGED <<document, fault, ret, analyzers, lists>>

\* visit of a statement of the block's body
VisitChild ==
    /\ pc = "block"
    /\ tasks[1].i <= Len(tasks[1].model)
    /\ ~IsBlock(NextLine)
    /\ Becomes(Propagate(visit_statement(NextLine, Self)), "block")
    /\ node' = NextLine
    /\ tasks' = [tasks EXCEPT ![1].i = @ + 1]
    /\ UNCHANGED <<document, fault, ret, analyzers, lists>>

\* the block's body is visited: visit_TestCase / visit_Keyword return
LeaveBlock ==
    /\ pc = "block"
    /\ IF tasks[1].i > Len(tasks[1].model) THEN TRUE ELSE IsBlock(NextLine)
    /\ pc' = "section"
    /\ current_testcase_or_keyword_name' = LeaveBlockOf(Self).name
    /\ UNCHANGED <<node, document, fault, results, calls, lookups, ret, exc,
                   appended, tasks, analyzers, lists>>

\* lines 45-46: the model is visited, get() returns self._results
PassReturn ==
    /\ pc = "section"
    /\ tasks[1].i > Len(tasks[1].model)
    /\ pc' = "returned"
    /\ lists' = <<results>>
    /\ UNCHANGED <<node, document, current_testcase_or_keyword_name, fault,
                   results, calls, lookups, ret, exc, appended, tasks, analyzers>>

NextPass ==
    \/ PassGet
    \/ VisitStatement
    \/ EnterBlock
    \/ VisitChild
    \/ LeaveBlock
    \/ PassReturn

SpecPass == InitPass /\ [][NextPass]_vars

----------------------------------------------------------------------------
(* lsp_types.Position and lsp_types.Range: comparison and containment *)

ge_of_lines(self, other) == self.line >= other.line

__ge__(self, other) ==
    IF self.line > other.line THEN TRUE
    ELSE IF self.line = other.line THEN self.character >= other.character
    ELSE FALSE

__gt__(self, other) ==
    IF self.line > other.line THEN TRUE
    ELSE IF self.line = other.line THEN self.character > other.character
    ELSE FALSE

__le__(self, other) ==
    IF self.line < other.line THEN TRUE
    ELSE IF self.line = other.line THEN self.character <= other.character
    ELSE FALSE

__lt__(self, other) ==
    IF self.line < other.line THEN TRUE
    ELSE IF self.line = other.line THEN self.character < other.character
    ELSE FALSE

\* the __eq__ the dataclass decorator generates: the fields are equal
__eq__(self, other) ==
    <<self.line, self.character>> = <<other.line, other.character>>

is_in_range_end_is_included(self, range, include_end) ==
    __le__(range.start, self) /\ __le__(self, range.end)

\* Position.is_in_range
is_in_range(self, range, include_end) ==
    IF include_end
    THEN __le__(range.start, self) /\ __le__(self, range.end)
    ELSE __le__(range.start, self) /\ __lt__(self, range.end)

\* Range.is_in_range
range_is_in_range(self, range) ==
    is_in_range(self.start, range, TRUE) /\ is_in_range(self.end, range, TRUE)

\* Range.__contains__ for a Position x
__contains__(self, x) == is_in_range(x, self, TRUE)

\* Three positions self, other, third with coordinates up to MaxCoord are
\* compared; then self is looked for in Range(other, third).
InitPosition ==
    /\ pc = "parsed"
    /\ \E a, b, c \in (0..MaxCoord) \X (0..MaxCoord) : \E include_end \in BOOLEAN :
           tasks = << [self |-> Position(a[1], a[2]),
                       other |-> Position(b[1], b[2]),
                       third |-> Position(c[1], c[2]),
                       include_end |-> include_end] >>
    /\ node = NoNode
    /\ document = NoDocument
    /\ current_testcase_or_keyword_name = None
    /\ fault = NoFault
    /\ results = <<>>
    /\ calls = <<>>
    /\ lookups = <<>>
    /\ ret = <<>>
    /\ exc = ""
    /\ appended = <<>>
    /\ analyzers = <<>>
    /\ lists = <<>>

\* self < other, self <= other, self > other, self >= other, self == other,
\* self != other
ComparePositions ==
    /\ pc = "parsed"
    /\ pc' = "compared"
    /\ ret' = [lt |-> __lt__(tasks[1].self, tasks[1].other),
               le |-> __le__(tasks[1].self, tasks[1].other),
               gt |-> __gt__(tasks[1].self, tasks[1].other),
               ge |-> __ge__(tasks[1].self, tasks[1].other),
               eq |-> __eq__(tasks[1].self, tasks[1].other),
               ne |-> ~__eq__(tasks[1].self, tasks[1].other)]
    /\ UNCHANGED <<node, document, current_testcase_or_keyword_name, fault,
                   results, calls, lookups, exc, appended, tasks, analyzers,
                   lists>>

\* self.is_in_range(Range(other, third), include_end) and
\* self in Range(other, third)
IsInRange ==
    /\ pc = "compared"
    /\ pc' = "looked for"
    /\ ret' = [is_in_range |->
                   is_in_range(tasks[1].self,
                               Range(tasks[1].other, tasks[1].third),
                               tasks[1].include_end),
               contains |->
                   __contains__(Range(tasks[1].other, tasks[1].third),
                                tasks[1].self)]
    /\ UNCHANGED <<node, document, current_testcase_or_keyword_name, fault,
                   results, calls, lookups, exc, appended, tasks, analyzers,
                   lists>>

NextPosition == ComparePositions \/ IsInRange

SpecPosition == InitPosition /\ [][NextPosition]_vars


----------------------------------------------------------------------------
(* RobotDefinitionProtocolPart (robotframework/parts/definition.py): the   *)
(* definition of the keyword at a position of a KeywordCall or Fixture.    *)
(* The result is the returned list of LocationLinks, <<>> standing for     *)
(* None.  namespace.find_keyword(name) is DocNamed(name); a doc's name is  *)
(* in RUN_KEYWORD_NAMES, RUN_KEYWORD_WITH_CONDITION_NAMES, or is           *)
(* RUN_KEYWORD_IF_NAME or RUN_KEYWORDS_NAME, when the doc is of that       *)
(* family.                                                                 *)

\* keyword_doc.range() is kept as the doc's line
LocationLink(origin_selection_range, keyword_doc) ==
    [origin_selection_range |-> origin_selection_range,
     target_uri |-> FileUri(keyword_doc.source),
     target_range |-> keyword_doc.line_no,
     target_selection_range |-> keyword_doc.line_no]

\* lines 107-119, 129-142, 149-162, 169-183: keyword_doc is what
\* find_keyword gave for the value of token, rest the tokens the loop goes
\* on with
RECURSIVE RunKeywordDefinition(_, _, _, _)
NestedDefinition(n, keyword_doc, token, rest, position) ==
    IF IsNone(keyword_doc) \/ keyword_doc.source = None THEN <<>>
    ELSE IF is_in_range(position, range_from_token(token), TRUE)
    THEN << LocationLink(range_from_node_or_token(n, token), keyword_doc) >>
    ELSE RunKeywordDefinition(n, keyword_doc, rest, position)

\* lines 185-200: the first token of Run Keywords that holds the position
\* and no variable
RunKeywordsDefinition(n, argument_tokens, position) ==
    IF \E i \in 1..Len(argument_tokens) :
           /\ is_in_range(position, range_from_token(argument_tokens[i]), TRUE)
           /\ is_not_variable_token(argument_tokens[i])
    THEN LET t == argument_tokens[
                      CHOOSE i \in 1..Len(argument_tokens) :
                          /\ is_in_range(position,
                                         range_from_token(argument_tokens[i]), TRUE)
                          /\ is_not_variable_token(argument_tokens[i])
                          /\ \A j \in 1..(i - 1) :
                                 ~(/\ is_in_range(
                                          position,
                                          range_from_token(argument_tokens[j]), TRUE)
                                   /\ is_not_variable_token(argument_tokens[j]))]
         IN  IF IsNone(DocNamed(t.value)) \/ DocNamed(t.value).source = None
             THEN <<>>
             ELSE << LocationLink(range_from_node_or_token(n, t),
                                  DocNamed(t.value)) >>
    ELSE <<>>

\* lines 123-201: the while loop
RunKeywordDefinition(n, keyword_doc, argument_tokens, position) ==
    IF IsNone(keyword_doc) \/ keyword_doc.libname # "BuiltIn"
           \/ argument_tokens = <<>>
    THEN <<>>
    ELSE IF /\ is_run_keyword(keyword_doc)
            /\ Len(argument_tokens) > 0
            /\ is_not_variable_token(argument_tokens[1])
    THEN NestedDefinition(n, DocNamed(argument_tokens[1].value),
                          argument_tokens[1], Tail(argument_tokens), position)
    ELSE IF /\ is_run_keyword_with_condition(keyword_doc)
            /\ Len(argument_tokens) > 1
            /\ is_not_variable_token(argument_tokens[2])
    THEN NestedDefinition(n, DocNamed(argument_tokens[2].value),
                          argument_tokens[2],
                          SubSeq(argument_tokens, 3, Len(argument_tokens)),
                          position)
    ELSE IF /\ is_run_keyword_if(keyword_doc)
            /\ Len(argument_tokens) > 1
            /\ is_not_variable_token(argument_tokens[2])
    THEN NestedDefinition(n, DocNamed(argument_tokens[2].value),
                          argument_tokens[2],
                          SubSeq(argument_tokens, 3, Len(argument_tokens)),
                          position)
    ELSE IF is_run_keywords(keyword_doc)
    THEN RunKeywordsDefinition(n, argument_tokens, position)
    ELSE <<>>

\* lines 90-203, n being a KeywordCall or a Fixture
_definition_KeywordCall_or_Fixture(n, position) ==
    IF n.keyword.value = "" \/ n.keyword = NoToken THEN <<>>
    ELSE NestedDefinition(n, DocNamed(n.keyword.value), n.keyword, n.args,
                          position)

\* The document holds one KeywordCall or Fixture of at most
\* MaxArgsDefinition arguments; the definition is asked for at the start or
\* at the end of one of its tokens (tasks[1].position), and tasks[1].links
\* is what collect_definitions returned.
InitDefinition ==
    /\ pc = "parsed"
    /\ \E kind \in {"KeywordCall", "Fixture"},
          kw \in {"Log", "Dyn Kw", "Unknown", "Run Keyword", "Run Keyword If",
                  "Run Keywords", "Wait Until Keyword Succeeds"},
          k \in 0..MaxArgsDefinition :
           \E vals \in [1..k -> {"${c}", "Log", "\\Log", "ELSE", "AND"}] :
               /\ node = [KeywordCall(kw, vals) EXCEPT !.kind = kind]
               /\ \E t \in 1..(k + 1), at_end \in BOOLEAN :
                      tasks = << [position |->
                                      IF at_end
                                      THEN range_from_token(NodeTokens(node)[t]).end
                                      ELSE range_from_token(NodeTokens(node)[t]).start,
                                  links |-> <<>>] >>
    /\ document = Document(<<PlainLine>>)
    /\ current_testcase_or_keyword_name = "TC"
    /\ fault = NoFault
    /\ results = <<>>
    /\ calls = <<>>
    /\ lookups = <<>>
    /\ ret = <<>>
    /\ exc = ""
    /\ appended = <<>>
    /\ analyzers = <<>>
    /\ lists = <<>>

\* lines 70-88 and 205-223: collect_definitions on the node at the position
FindDefinition ==
    /\ pc = "parsed"
    /\ pc' = "defined"
    /\ tasks' = [tasks EXCEPT ![1].links =
                     IF is_in_range(tasks[1].position, range_from_node(node), TRUE)
                     THEN _definition_KeywordCall_or_Fixture(node, tasks[1].position)
                     ELSE <<>>]
    /\ UNCHANGED <<node, document, current_testcase_or_keyword_name, fault,
                   results, calls, lookups, ret, exc, appended, analyzers,
                   lists>>

\* The analyzer visits the node the definition was asked for.
VisitDefined ==
    /\ pc = "defined"
    /\ Becomes(visit_statement(node, Self), "visited")
    /\ UNCHANGED <<node, document, fault, ret, tasks, analyzers, lists>>

NextDefinition == FindDefinition \/ VisitDefined

SpecDefinition == InitDefinition /\ [][NextDefinition]_vars

----------------------------------------------------------------------------
(* The definition of the library or resource at a position of an import.   *)
(* The maps of the namespace are keyed by (import_name, args, alias); a    *)
(* map is the set of its values, the entries.                              *)

\* lines 265-301, n being a LibraryImport and entries the values of
\* namespace.get_libraries()
definition_LibraryImport(n, entries, position) ==
    IF n.name = "" \/ n.name_token = NoToken THEN <<>>
    ELSE IF ~is_in_range(position, range_from_token(n.name_token), TRUE) THEN <<>>
    ELSE IF Cardinality({e \in entries : /\ e.import_name = n.name
                                         /\ e.args = n.args
                                         /\ e.alias = n.alias}) = 1
    THEN LET libdoc == CHOOSE e \in entries : /\ e.import_name = n.name
                                              /\ e.args = n.args
                                              /\ e.alias = n.alias
         IN  IF libdoc.python_source # None
             THEN << LocationLink(range_from_token(n.name_token),
                                  [source |-> libdoc.python_source,
                                   line_no |-> 0]) >>
             ELSE <<>>
    ELSE <<>>

\* lines 303-338, n being a ResourceImport and entries the values of
\* namespace.get_resources()
definition_ResourceImport(n, entries, position) ==
    IF n.name = "" \/ n.name_token = NoToken THEN <<>>
    ELSE IF ~is_in_range(position, range_from_token(n.name_token), TRUE) THEN <<>>
    ELSE IF Cardinality({e \in entries : e.import_name = n.name}) = 1
    THEN LET libdoc == CHOOSE e \in entries : e.import_name = n.name
         IN  IF libdoc.python_source # None
             THEN << LocationLink(range_from_token(n.name_token),
                                  [source |-> libdoc.python_source,
                                   line_no |-> 0]) >>
             ELSE <<>>
    ELSE <<>>

\* The document holds one import, "Library    <name>    <args>    WITH
\* NAME    <alias>" or "Resource    <name>", and the namespace at most
\* MaxImports entries of distinct keys in the map of the import's kind
\* (tasks[1].entries); the definition is asked for on the name or before it.
InitImport ==
    /\ pc = "parsed"
    /\ \E kind \in {"LibraryImport", "ResourceImport"},
          name \in {"Lib", "Other"}, args \in {<<>>, <<"a">>},
          alias \in {None, "X"}, character \in {0, 11}, k \in 0..MaxImports :
           \E f \in [1..k -> [import_name : {"Lib", "Other"},
                              args : {<<>>, <<"a">>},
                              alias : {None, "X"},
                              python_source : {None, "/lib/Lib.py"}]] :
               /\ \A i, j \in 1..k :
                      (/\ f[i].import_name = f[j].import_name
                       /\ f[i].args = f[j].args
                       /\ f[i].alias = f[j].alias) => f[i] = f[j]
               /\ kind = "ResourceImport" => args = <<>> /\ alias = None
               /\ node = [kind |-> kind, name |-> name, args |-> args,
                          alias |-> alias, name_token |-> Token(name, 1, 11)]
               /\ tasks = << [position |-> Position(0, character),
                              entries |-> {f[i] : i \in 1..k},
                              links |-> <<>>] >>
    /\ document = Document(<<PlainLine>>)
    /\ current_testcase_or_keyword_name = None
    /\ fault = NoFault
    /\ results = <<>>
    /\ calls = <<>>
    /\ lookups = <<>>
    /\ ret = <<>>
    /\ exc = ""
    /\ appended = <<>>
    /\ analyzers = <<>>
    /\ lists = <<>>

\* collect_definitions on a LibraryImport
LibraryDefinition ==
    /\ pc = "parsed"
    /\ node.kind = "LibraryImport"
    /\ pc' = "defined"
    /\ tasks' = [tasks EXCEPT ![1].links =
                     definition_LibraryImport(node, tasks[1].entries,
                                              tasks[1].position)]
    /\ UNCHANGED <<node, document, current_testcase_or_keyword_name, fault,
                   results, calls, lookups, ret, exc, appended, analyzers,
                   lists>>

\* collect_definitions on a ResourceImport
ResourceDefinition ==
    /\ pc = "parsed"
    /\ node.kind = "ResourceImport"
    /\ pc' = "defined"
    /\ tasks' = [tasks EXCEPT ![1].links =
                     definition_ResourceImport(node, tasks[1].entries,
                                               tasks[1].position)]
    /\ UNCHANGED <<node, document, current_testcase_or_keyword_name, fault,
                   results, calls, lookups, ret, exc, appended, analyzers,
                   lists>>

NextImport == LibraryDefinition \/ ResourceDefinition

SpecImport == InitImport /\ [][NextImport]_vars


----------------------------------------------------------------------------
(* Properties of the run-keyword state machine *)

A == node.args

Returned(keyword) == pc = "returned" /\ node.keyword.value = keyword

\* Number of analyze_call invocations whose keyword token is t.
CallsOn(t) == Cardinality({ j \in 1..Len(calls) : calls[j].token = t })

Markers == {"ELSE", "ELSE IF"}

\* The branches of a Run Keyword If stream by its surface syntax, from
\* position i on: <<kind, position of the branch keyword>>.
RECURSIVE BranchesFrom(_, _)
BranchesFrom(tokens, i) ==
    IF i > Len(tokens) THEN {}
    ELSE IF tokens[i].value = "ELSE"
    THEN IF i + 1 <= Len(tokens) THEN {<<"ELSE", i + 1>>} ELSE {}
    ELSE IF tokens[i].value = "ELSE IF"
    THEN IF i + 2 <= Len(tokens)
         THEN {<<"ELSE IF", i + 2>>} \cup BranchesFrom(tokens, i + 3)
         ELSE {}
    ELSE BranchesFrom(tokens, i + 1)

Branches(tokens) == {<<"IF", 2>>} \cup BranchesFrom(tokens, 3)

\* Every branch keyword of the stream is a literal name, and no condition
\* or branch keyword is itself a marker.
WellFormedIf(tokens) ==
    /\ Len(tokens) >= 2
    /\ \A b \in Branches(tokens) :
           /\ is_not_variable_token(tokens[b[2]])
           /\ tokens[b[2]].value \notin Markers
           /\ tokens[b[2] - 1].value \notin Markers \/ b[1] = "ELSE"

\* The tokens after position i and before the next ELSE / ELSE IF.
RECURSIVE TokensUntilMarker(_, _)
TokensUntilMarker(tokens, i) ==
    IF i + 1 > Len(tokens) \/ tokens[i + 1].value \in Markers THEN <<>>
    ELSE <<tokens[i + 1]>> \o TokensUntilMarker(tokens, i + 1)

\* C1: in Run Keyword If, for every stream A with |A| >= 2 the keyword
\* token of the first branch, of every ELSE IF branch and of the ELSE branch
\* is passed to analyze_call exactly once, whatever the family of the
\* earlier branches' keywords (stated for streams whose branch keywords are
\* literal names).
C1_EveryBranchKeywordAnalysedOnce ==
    (Returned("Run Keyword If") /\ WellFormedIf(A))
        => \A b \in Branches(A) : CallsOn(A[b[2]]) = 1

\* C2: for the first branch and every ELSE IF branch of Run Keyword If, the
\* arguments handed to the branch keyword's analyze_call are exactly the
\* tokens after the branch keyword and before the next ELSE / ELSE IF.
C2_BranchArgumentsEndAtNextMarker ==
    (Returned("Run Keyword If") /\ WellFormedIf(A))
        => \A b \in Branches(A) : \A j \in 1..Len(calls) :
               (b[1] # "ELSE" /\ calls[j].token = A[b[2]])
                   => calls[j].args = TokensUntilMarker(A, b[2])

\* The first positions of the AND-delimited segments of a Run Keywords
\* stream.
SegmentStarts(tokens) ==
    { i \in 1..Len(tokens) :
          tokens[i].value # "AND" /\ (i = 1 \/ tokens[i - 1].value = "AND") }

\* The tokens of the segment after its first token at position i.
RECURSIVE SegmentRest(_, _)
SegmentRest(tokens, i) ==
    IF i + 1 > Len(tokens) \/ tokens[i + 1].value = "AND" THEN <<>>
    ELSE <<tokens[i + 1]>> \o SegmentRest(tokens, i + 1)

HasAnd(tokens) == \E i \in 1..Len(tokens) : tokens[i].value = "AND"

\* C3: for a Run Keywords stream with at least one AND, analyze_call is
\* invoked with keyword token t only if t is the first token of an
\* AND-delimited segment, once per segment whose first token is literal,
\* with the remaining tokens of the segment as arguments; an argument inside
\* a segment is never analysed as a keyword name.
C3_OneCallPerSegment ==
    (Returned("Run Keywords") /\ HasAnd(A))
        => /\ \A j \in 1..Len(calls) :
                  \E i \in SegmentStarts(A) :
                      /\ calls[j].token = A[i]
                      /\ is_not_variable_token(A[i])
                      /\ calls[j].args = SegmentRest(A, i)
           /\ \A i \in SegmentStarts(A) :
                  is_not_variable_token(A[i]) => CallsOn(A[i]) = 1

\* What one analyze_call of the first token with the rest as arguments does
\* on an Analyzer that has done nothing yet.
OneCall(tokens) ==
    _analyze_keyword_call(unescape(tokens[1].value), node, tokens[1], Tail(tokens),
                          TRUE, Analyzer(document, current_testcase_or_keyword_name)).E

\* C4 as claimed: Run Keyword with a literal A[0] makes exactly one nested
\* analyze_call (name unescape(A[0].value), token A[0], arguments A[1..])
\* and returns the empty list; with an empty A or a variable-bearing A[0] it
\* makes no call and returns A.
C4_RunKeywordConsumesAll ==
    Returned("Run Keyword")
        => IF A # <<>> /\ is_not_variable_token(A[1])
           THEN /\ calls = OneCall(A).calls
                /\ calls[1] = Call(unescape(A[1].value), A[1], Tail(A), TRUE)
                /\ ret = <<>>
           ELSE calls = <<>> /\ ret = A

\* C4, amended: as claimed, but the returned list is A[1..]: only the
\* keyword token is consumed.
C4_RunKeywordConsumesName ==
    Returned("Run Keyword")
        => IF A # <<>> /\ is_not_variable_token(A[1])
           THEN /\ calls = OneCall(A).calls
                /\ results = OneCall(A).results
                /\ calls[1] = Call(unescape(A[1].value), A[1], Tail(A), TRUE)
                /\ CallsOn(A[1]) = 1
                /\ ret = Tail(A)
           ELSE calls = <<>> /\ results = <<>> /\ ret = A

C4_Witness ==
    /\ Returned("Run Keyword")
    /\ Len(A) >= 2
    /\ A[1].value = "\\Log"
    /\ calls = <<Call("Log", A[1], Tail(A), TRUE)>>
    /\ ret = Tail(A)

\* The condition-argument count of the statement's keyword.
CondCount == run_keyword_condition_count(DocNamed(node.keyword.value))

ReturnedWithCondition ==
    /\ pc = "returned"
    /\ is_run_keyword_with_condition(DocNamed(node.keyword.value))

\* C5: for RunKeywordWithCondition(c) a nested analyze_call is made iff
\* |A| > c and A[c] is literal; it uses keyword token A[c] and arguments
\* A[c+1..]; the condition tokens A[0..c-1] are never analysed as keyword
\* names.
C5_ConditionCountSkipsConditions ==
    ReturnedWithCondition
        => /\ calls # <<>> <=> (Len(A) > CondCount /\ is_not_variable_token(A[CondCount + 1]))
           /\ calls # <<>> =>
                  /\ calls[1] = Call(unescape(A[CondCount + 1].value), A[CondCount + 1],
                                     SubSeq(A, CondCount + 2, Len(A)), TRUE)
                  /\ CallsOn(A[CondCount + 1]) = 1
           /\ \A j \in 1..Len(calls) : \A i \in 1..CondCount :
                  i <= Len(A) => calls[j].token # A[i]

C5_Witness ==
    /\ ReturnedWithCondition
    /\ CondCount = 2
    /\ Len(A) = 4
    /\ is_not_variable_token(A[2])
    /\ calls # <<>>
    /\ calls[1].token = A[3]

IsSuffix(s, tokens) ==
    \E k \in 0..Len(tokens) : s = SubSeq(tokens, k + 1, Len(tokens))

\* C6: for every run-keyword family and every stream A the list the state
\* machine returns is a suffix of A; for a doc of family None, or a missing
\* doc, it is A itself.
C6_ReturnsSuffix ==
    pc = "returned"
        => /\ IsSuffix(ret, A)
           /\ ~is_any_run_keyword(DocNamed(node.keyword.value)) => ret = A

C6_Witness ==
    /\ Returned("Run Keyword If")
    /\ Len(A) = 4
    /\ A[2].value = "Run Keyword"
    /\ A[3].value = "Log"
    /\ Len(calls) = 1
    /\ ret = <<A[4]>>

\* The call is Run Keyword If <cond> K1 <args> ELSE K2 while
\* current_testcase_or_keyword_name is a non-empty name, on a line without
\* pragma: K1 resolves to a keyword of family None whose
\* arguments bind, K2 is a literal name that does not resolve.
IfElseScenario ==
    /\ pc = "visited"
    /\ node.keyword.value = "Run Keyword If"
    /\ current_testcase_or_keyword_name \notin {None, ""}
    /\ document = Document(<<PlainLine>>)
    /\ Len(A) >= 4
    /\ A[Len(A) - 1].value = "ELSE"
    /\ \A i \in 3..(Len(A) - 2) : A[i].value \notin Markers
    /\ ~IsNone(DocNamed(A[2].value))
    /\ ~is_any_run_keyword(DocNamed(A[2].value))
    /\ resolve(DocNamed(A[2].value), TokenValues(SubSeq(A, 3, Len(A) - 2))) = ""
    /\ is_not_variable_token(A[Len(A)])
    /\ A[Len(A)].value \notin Markers
    /\ IsNone(DocNamed(A[Len(A)].value))

OnlyK2NotFound ==
    /\ Len(results) = 1
    /\ results[1].range = Range(Position(0, A[Len(A)].col_offset),
                                Position(0, A[Len(A)].col_offset + Len(A[Len(A)].value)))
    /\ results[1].code = "KeywordError/not_found"
    /\ results[1].severity = "Error"

\* C7 as claimed: the pass emits exactly one diagnostic for the call, and
\* its range is K2's token range.
C7_OnlyUnknownElseKeywordReported == IfElseScenario => OnlyK2NotFound

\* C7, amended: as claimed, for a K1 that is not deprecated, has no
\* definition errors and is not an error handler.
C7_OnlyUnknownElseKeywordReportedPlainK1 ==
    (/\ IfElseScenario
     /\ ~DocNamed(A[2].value).is_deprecated
     /\ DocNamed(A[2].value).errors = <<>>
     /\ ~DocNamed(A[2].value).is_error_handler)
        => OnlyK2NotFound

C7_Witness ==
    /\ IfElseScenario
    /\ A[2].value = "Log"
    /\ Len(A) = 5
    /\ A[5].value = "Unknown"
    /\ OnlyK2NotFound

----------------------------------------------------------------------------
(* Properties of get() and of the suppression of diagnostics *)

\* The diagnostics of one get(model, namespace) that runs alone, from the
\* call model[i] on: the finder's diagnostics of each call, on the call's
\* keyword token, in the order of the calls.
RECURSIVE OwnDiagnostics(_, _, _)
OwnDiagnostics(model, namespace, i) ==
    IF i > Len(model) THEN <<>>
    ELSE (IF model[i] \in namespace.keywords THEN <<>>
          ELSE << Diagnostic(Range(Position(i, 4), Position(i, 4 + Len(model[i]))),
                             "No keyword with name found.", "Error",
                             "KeywordError/not_found", DIAGNOSTICS_SOURCE_NAME, <<>>) >>)
         \o OwnDiagnostics(model, namespace, i + 1)

\* C8: two get() calls that interleave at suspension points each return
\* exactly the diagnostics produced for their own model and namespace, also
\* when both calls are made on the same Analyzer object.
C8_InterleavedPassesReturnOwnDiagnostics ==
    pc = "get"
        => \A t \in 1..Len(tasks) :
               tasks[t].pc = "done"
                   => lists[tasks[t].returned]
                          = OwnDiagnostics(tasks[t].model, tasks[t].namespace, 1)

\* The line carries the ignore pragma: its "#" stands where a comment may
\* start and the comment holds "robotcode: ignore".
CarriesIgnorePragma(line) ==
    /\ line.sep \in {"bol", "tab", "sp2"}
    /\ \E i \in 1..(Len(line.comment) - 2) :
           /\ line.comment[i] = "robotcode"
           /\ line.comment[i + 1] = ":"
           /\ line.comment[i + 2] = "ignore"

LastRange == appended[1].range

\* Every line the last range covers is a line of the document.
CoveredLinesExist ==
    document.present => LastRange.end.line < Len(document.lines)

SomeCoveredLineMarked ==
    /\ document.present
    /\ \E l \in LastRange.start.line..LastRange.end.line :
           CarriesIgnorePragma(document.lines[l + 1])

LookupFailed(kind) ==
    fault.op = "find_keyword" /\ fault.kind = kind /\ Len(lookups) >= fault.at

\* C10: a recoverable failure raised by a finder lookup while a keyword call
\* is analysed, directly or nested through the run-keyword state machine, is
\* converted into one Error diagnostic and the visit of the node completes;
\* the failure does not escape.
C10_RecoverableFailureBecomesDiagnostic ==
    (pc \in {"visited", "raised"} /\ LookupFailed("KeywordError"))
        => /\ pc = "visited"
           /\ exc = ""
           /\ Cardinality({ i \in 1..Len(results) :
                                /\ results[i].code = "KeywordError"
                                /\ results[i].severity = "Error" }) = 1

----------------------------------------------------------------------------
(* Failures raised while a keyword call is analysed *)

\* The fatal signals: process interrupt, process exit, out of memory.
FatalSignals == {"KeyboardInterrupt", "SystemExit", "MemoryError"}

\* The analyze_call whose number is fault.at reached its argument
\* resolution: its token is literal, its keyword resolved, and it is a call
\* of the visited node, which is no template.
ResolveFailed(kind) ==
    /\ fault.op = "resolve" /\ fault.kind = kind
    /\ Len(calls) >= fault.at
    /\ is_not_variable_token(calls[fault.at].token)
    /\ ~IsNone(DocNamed(calls[fault.at].name))
    /\ NodeTokens(node) # <<>>
    /\ calls[fault.at].token.lineno = NodeTokens(node)[1].lineno
    /\ node.kind \notin {"Template", "TestTemplate"}

\* C11: a fatal signal (process interrupt, process exit, out of memory)
\* raised by a finder lookup or by an argument resolution while a keyword
\* call is analysed leaves the visit as that same exception, and no
\* diagnostic is made of it.
C11_FatalSignalReraised ==
    \A kind \in FatalSignals :
        (pc \in {"visited", "raised"} /\ (LookupFailed(kind) \/ ResolveFailed(kind)))
            => /\ pc = "raised"
               /\ exc = kind
               /\ \A i \in 1..Len(results) : results[i].code # kind

\* The line a node is on.
LineNo(n) == NodeTokens(n)[1].lineno

\* The first line of the file was visited and the visit called
\* append_diagnostics: the line is a keyword call in no block (which gets
\* at least the unreachable hint) or a block without name; the first
\* get_lines of the pass was cancelled.
AppendCancelled ==
    /\ fault.op = "get_lines" /\ fault.at = 1
    /\ tasks[1].i > 1
    /\ \/ tasks[1].model[1].kind = "KeywordCall"
       \/ IsBlock(tasks[1].model[1]) /\ tasks[1].model[1].keyword.value = ""

Cancelled ==
    \/ LookupFailed("CancelledError")
    \/ ResolveFailed("CancelledError")
    \/ AppendCancelled

\* C12: when a finder lookup, an argument resolution or the appending of a
\* diagnostic is cancelled, get() raises the cancellation: the pass has
\* stopped at the node it was visiting (no later line was visited, no call
\* of a later line analysed), no diagnostic carries the cancellation, and
\* no list was returned.
C12_CancellationLeavesGet ==
    Cancelled
        => /\ pc = "raised"
           /\ exc = "CancelledError"
           /\ lists = <<>>
           /\ \A i \in 1..Len(results) : results[i].code # "CancelledError"
           /\ tasks[1].i = LineNo(node) + 1
           /\ \A i \in 1..Len(calls) : calls[i].token.lineno <= LineNo(node)

\* The resolution of the first line's call was cancelled; the second line
\* was never visited.
C12_Witness ==
    /\ ResolveFailed("CancelledError")
    /\ pc = "raised"
    /\ exc = "CancelledError"
    /\ Len(tasks[1].model) = 2
    /\ LineNo(node) = 1
    /\ lists = <<>>

----------------------------------------------------------------------------
(* The cancelation token *)

\* C13: once the token of a pass is cancelled, the pass appends no further
\* diagnostic (the token is checked between the nodes and at every
\* suspension point).
C13_NothingAppendedAfterCancellation ==
    [][\A t \in DOMAIN tasks :
           tasks[t].token = "cancelled"
               => \A l \in DOMAIN lists : lists'[l] = lists[l]]_vars

----------------------------------------------------------------------------
(* The diagnostics of one node *)

\* p is not after q
NotAfter(p, q) ==
    p.line < q.line \/ (p.line = q.line /\ p.character <= q.character)

\* C14: the diagnostics appended by the visit of one node are in
\* non-decreasing order of the start of their ranges; in particular the
\* unreachable hint of a keyword call outside any block does not start
\* before a diagnostic appended earlier for that call.
C14_NodeDiagnosticsInSourceOrder ==
    \A i \in 1..Len(appended), j \in 1..Len(appended) :
        i < j => NotAfter(appended[i].range.start, appended[j].range.start)

\* The visited node is a statement of the body of a block of the file.
InBlock == \E j \in 1..(LineNo(node) - 1) : IsBlock(tasks[1].model[j])

IsUnreachableHint(d) ==
    /\ d.message = "Code is unreachable."
    /\ d.severity = "Hint"
    /\ d.tags = <<"Unnecessary">>

\* The visit of a keyword call has returned.
KeywordCallVisited == node.kind = "KeywordCall" /\ pc # "raised"

\* C15: the visit of a keyword call appends the 'Code is unreachable.' hint
\* if and only if the call is in no TestCase or Keyword block; a call in a
\* block never gets it, whatever the block's name.
C15_UnreachableIffOutsideBlock ==
    KeywordCallVisited
        => ((\E i \in 1..Len(appended) : IsUnreachableHint(appended[i])) <=> ~InBlock)

----------------------------------------------------------------------------
(* current_testcase_or_keyword_name around a block *)

\* The lines of the blocks whose visit has begun.
EnteredBlocks == { j \in 1..(tasks[1].i - 1) : IsBlock(tasks[1].model[j]) }

\* The block entered last.
LastBlock ==
    tasks[1].model[CHOOSE j \in EnteredBlocks : \A k \in EnteredBlocks : k <= j]

\* C16: while the children of a TestCase or Keyword block are visited,
\* current_testcase_or_keyword_name is the block's name; once the visit of
\* the block has returned or raised (the visit of a child raising
\* included), it is the value it had before the visit.
C16_NameIsPushedAndPopped ==
    /\ pc = "block" => current_testcase_or_keyword_name = LastBlock.keyword.value
    /\ (pc \in {"section", "returned", "raised"} /\ EnteredBlocks # {})
           => current_testcase_or_keyword_name = tasks[1].before

\* The visit of a call in the body of test case TC raised.
C16_Witness ==
    /\ pc = "raised"
    /\ EnteredBlocks # {}
    /\ LastBlock.keyword.value = "TC"
    /\ node.kind = "KeywordCall"
    /\ current_testcase_or_keyword_name = None
    /\ tasks[1].before = None

----------------------------------------------------------------------------
(* Keyword calls without keyword, variable keywords, argument binding *)

\* The Error diagnostics the visit of the node appended.
AppendedErrors == SelectSeq(appended, LAMBDA d : d.severity = "Error")

\* The visit of a keyword call with an assignment and no keyword returned.
EmptyKeywordVisited ==
    /\ KeywordCallVisited
    /\ node.assign # <<>>
    /\ node.keyword = NoToken

\* C17: the visit of a keyword call that has an assignment and no keyword
\* appends exactly one Error diagnostic, 'Keyword name cannot be empty.'
\* with code KeywordError at the ASSIGN token, and analyze_call is not
\* invoked for the node: no call of the node is analysed, and when the node
\* is the first of the file the finder has not been consulted at all.
C17_EmptyKeywordNameReportedOnce ==
    EmptyKeywordVisited
        => /\ Len(AppendedErrors) = 1
           /\ AppendedErrors[1].message = "Keyword name cannot be empty."
           /\ AppendedErrors[1].code = "KeywordError"
           /\ AppendedErrors[1].range = range_from_token(node.assign[1])
           /\ \A i \in 1..Len(calls) : calls[i].token.lineno # LineNo(node)
           /\ LineNo(node) = 1 => (calls = <<>> /\ lookups = <<>>)

\* "    ${x}=" as the first statement of test case TC
C17_Witness ==
    /\ EmptyKeywordVisited
    /\ pc = "block"
    /\ current_testcase_or_keyword_name = "TC"
    /\ Len(appended) = 1
    /\ appended[1].message = "Keyword name cannot be empty."
    /\ lookups = <<>>

\* The analyze_call invocations of the visited node that were given a
\* variable-bearing keyword token.
VariableCalls ==
    { i \in 1..Len(calls) :
          /\ calls[i].token.lineno = LineNo(node)
          /\ ~is_not_variable_token(calls[i].token) }

\* The variable-bearing tokens of the node that can stand for a keyword.
VariableTokens(n) ==
    { t \in {n.keyword} \cup {n.args[i] : i \in 1..Len(n.args)} :
          t # NoToken /\ ~is_not_variable_token(t) }

\* analyze_call with the parameters of call c, made on the Analyzer as it
\* is, leaves it as it is but for the record of the call.
LeavesAnalyzerAlone(c) ==
    /\ IsNone(_analyze_keyword_call(c.name, node, c.token, c.args,
                                    c.analyse_run_keywords, Self).result)
    /\ _analyze_keyword_call(c.name, node, c.token, c.args,
                             c.analyse_run_keywords, Self).E
           = [Self EXCEPT !.calls = Append(calls, c)]

\* C18: analyze_call given a variable-bearing keyword token returns no doc,
\* appends no diagnostic, consults no finder and starts no nested analysis;
\* and no diagnostic of the pass is anchored on a variable-bearing keyword
\* or argument token of a visited node.
C18_VariableKeywordIsSkipped ==
    (node # NoNode /\ pc # "raised")
        => /\ \A i \in VariableCalls : LeavesAnalyzerAlone(calls[i])
           /\ \A t \in VariableTokens(node) :
                  \A i \in 1..Len(results) : results[i].range # range_from_token(t)

\* Run Keyword If    ${c}    ${kw}    ELSE    ${kw} in test case TC: the
\* ELSE branch hands analyze_call a variable-bearing token.
C18_Witness ==
    /\ pc = "block"
    /\ current_testcase_or_keyword_name = "TC"
    /\ node.kind = "KeywordCall"
    /\ node.keyword.value = "Run Keyword If"
    /\ VariableCalls # {}
    /\ Len(calls) = 2
    /\ results = <<>>

\* The analyze_call invocations of the visited node whose keyword resolved
\* and whose arguments do not bind.
UnboundCalls ==
    { i \in 1..Len(calls) :
          /\ calls[i].token.lineno = LineNo(node)
          /\ is_not_variable_token(calls[i].token)
          /\ ~IsNone(DocNamed(calls[i].name))
          /\ resolve(DocNamed(calls[i].name), TokenValues(calls[i].args)) # "" }

\* From the start of the call's keyword token to the end of its last
\* argument token, or of the keyword token when it has no arguments.
BindingRange(c) ==
    Range(Position(c.token.lineno - 1, c.token.col_offset),
          IF c.args # <<>>
          THEN Position(c.args[Len(c.args)].lineno - 1,
                        c.args[Len(c.args)].col_offset + Len(c.args[Len(c.args)].value))
          ELSE Position(c.token.lineno - 1, c.token.col_offset + Len(c.token.value)))

\* The diagnostics of the node that report the binding failure of call c.
BindingDiagnostics(c) ==
    { i \in 1..Len(appended) :
          /\ appended[i].severity = "Error"
          /\ appended[i].code = resolve(DocNamed(c.name), TokenValues(c.args))
          /\ appended[i].range = BindingRange(c) }

\* C19: when the arguments of a call whose keyword resolved do not bind and
\* the node is no Template or TestTemplate, exactly one Error diagnostic is
\* appended for the failure, from the keyword token's start to the last
\* argument token's end (the keyword token's end without arguments), its
\* code being the failure's type name; for a Template or TestTemplate node
\* the resolver is not run, so that no binding failure is reported.
C19_BindingFailureReportedOnce ==
    (node # NoNode /\ pc # "raised")
        => IF node.kind \in {"Template", "TestTemplate"}
           THEN \A i \in 1..Len(appended) : appended[i].code # "DataError"
           ELSE /\ \A i \in UnboundCalls : Cardinality(BindingDiagnostics(calls[i])) = 1
                /\ Cardinality({ i \in 1..Len(appended) : appended[i].code = "DataError" })
                       = Cardinality(UnboundCalls)

\* Run Keyword If    ${c} in test case TC: one value where two are needed
C19_Witness ==
    /\ pc = "block"
    /\ current_testcase_or_keyword_name = "TC"
    /\ node.kind = "KeywordCall"
    /\ node.keyword.value = "Run Keyword If"
    /\ Len(node.args) = 1
    /\ Len(appended) = 1
    /\ appended[1].code = "DataError"
    /\ appended[1].range.end.character = end_col_offset(node.args[1])

----------------------------------------------------------------------------
(* Diagnostic codes *)

\* The type names of the failures of the model.
FailureTypeNames == {"DataError"} \cup FaultKinds

\* C20: every diagnostic of the buffer carries a code, which is
\* KeywordError, KeywordError/multiple, KeywordError/not_found or the type
\* name of a failure; the empty-name, unreachable and embedded-mix
\* diagnostics carry KeywordError.
C20_EveryDiagnosticHasCode ==
    \A i \in 1..Len(results) :
        /\ results[i].code
               \in {"KeywordError", "KeywordError/multiple", "KeywordError/not_found"}
                       \cup FailureTypeNames
        /\ results[i].message
               \in {"Keyword name cannot be empty.", "Test case name cannot be empty.",
                    "Code is unreachable.",
                    "Keyword cannot have both normal and embedded arguments."}
               => results[i].code = "KeywordError"

----------------------------------------------------------------------------
(* Position and Range *)

\* (line, character) of a before that of b in the lexicographic order
LexLess(a, b) ==
    a.line < b.line \/ (a.line = b.line /\ a.character < b.character)

\* C29: the comparisons of Position are the lexicographic order on
\* (line, character), which is total: of self < other, self == other and
\* self > other exactly one holds, self <= other iff self < other or
\* self == other, self >= other iff not self < other, and < and <= are
\* transitive.
C29_PositionOrderIsLexicographic ==
    pc = "compared" =>
        LET a == tasks[1].self
            b == tasks[1].other
            c == tasks[1].third
        IN  /\ ret.lt = LexLess(a, b)
            /\ ret.gt = LexLess(b, a)
            /\ ret.eq = (a = b)
            /\ ret.ne = ~ret.eq
            /\ Cardinality({r \in {"lt", "eq", "gt"} : ret[r]}) = 1
            /\ ret.le = (ret.lt \/ ret.eq)
            /\ ret.ge = ~ret.lt
            /\ __lt__(a, b) /\ __lt__(b, c) => __lt__(a, c)
            /\ __le__(a, b) /\ __le__(b, c) => __le__(a, c)

\* self is before other on the same line, and other before third
C29_Witness ==
    /\ pc = "compared"
    /\ tasks[1].self.line = tasks[1].other.line
    /\ ret.lt /\ ret.le /\ ~ret.ge /\ ~ret.gt
    /\ __lt__(tasks[1].other, tasks[1].third)

\* C30: p.is_in_range(r, include_end) holds iff r.start <= p and p <= r.end
\* (include_end) or p < r.end (not include_end), in the lexicographic order:
\* the start is inclusive in both modes, the end is inclusive in `p in r`
\* and by default, and with include_end false a range whose start is its
\* end contains no position.
C30_IsInRangeEndInclusionFollowsFlag ==
    pc = "looked for" =>
        LET p == tasks[1].self
            r == Range(tasks[1].other, tasks[1].third)
        IN  /\ ret.is_in_range =
                   (/\ LexLess(r.start, p) \/ r.start = p
                    /\ LexLess(p, r.end) \/ (tasks[1].include_end /\ p = r.end))
            /\ ret.contains =
                   (/\ LexLess(r.start, p) \/ r.start = p
                    /\ LexLess(p, r.end) \/ p = r.end)
            /\ ~tasks[1].include_end /\ r.start = r.end => ~ret.is_in_range

\* the position is the end of a range that is not empty, looked for with
\* include_end false
C30_Witness ==
    /\ pc = "looked for"
    /\ ~tasks[1].include_end
    /\ tasks[1].self = tasks[1].third
    /\ __lt__(tasks[1].other, tasks[1].third)
    /\ ~ret.is_in_range /\ ret.contains

----------------------------------------------------------------------------
(* Definition lookup *)

\* The definition was asked for at a position on the keyword-name token.
OnKeywordToken ==
    is_in_range(tasks[1].position, range_from_token(node.keyword), TRUE)

\* C21: when find_keyword resolves the name of the KeywordCall or Fixture
\* to a doc, the definition asked for at a position on the keyword-name
\* token is exactly one LocationLink, whose target_uri is the file URI of
\* the doc's source; a doc whose source is absent gets one link too.
C21_DefinitionOfResolvedKeyword ==
    (/\ pc \in {"defined", "visited"}
     /\ OnKeywordToken
     /\ ~IsNone(DocNamed(node.keyword.value)))
        => /\ Len(tasks[1].links) = 1
           /\ DocNamed(node.keyword.value).source # None
                  => tasks[1].links[1].target_uri
                         = FileUri(DocNamed(node.keyword.value).source)

\* The argument token the definition was asked for at, as a set.
ArgumentAtPosition ==
    { i \in 1..Len(node.args) :
          is_in_range(tasks[1].position, range_from_token(node.args[i]), TRUE) }

\* The nested calls the analyzer made on argument i that resolved to a doc.
ResolvedCallsOn(i) ==
    { j \in 1..Len(calls) :
          calls[j].token = node.args[i] /\ ~IsNone(DocNamed(calls[j].name)) }

\* C22: the definition resolver and the analyzer read the arguments of a
\* run keyword alike: the definition asked for at a position on an argument
\* token is a link exactly when the analyzer analysed that token as the
\* name of a nested keyword (and resolved it), and the link targets the doc
\* the analyzer resolved.
C22_DefinitionFollowsAnalyzer ==
    pc = "visited" =>
        \A i \in ArgumentAtPosition :
            /\ tasks[1].links # <<>> <=> ResolvedCallsOn(i) # {}
            /\ tasks[1].links # <<>> =>
                   \A j \in ResolvedCallsOn(i) :
                       tasks[1].links =
                           << LocationLink(range_from_token(node.args[i]),
                                           DocNamed(calls[j].name)) >>

----------------------------------------------------------------------------
(* Names and docs *)

\* C24: every name handed to the finder while a statement is analysed is
\* an unescaped token value: no lookup is made with a raw value that
\* unescaping would change.
C24_LookupsAreUnescaped ==
    pc = "visited" =>
        \A i \in 1..Len(lookups) :
            /\ unescape(lookups[i]) = lookups[i]
            /\ \E t \in 1..Len(NodeTokens(node)) :
                   lookups[i] = unescape(NodeTokens(node)[t].value)

\* The entries of the namespace's map whose full key is the import's.
MatchingImports ==
    { e \in tasks[1].entries : /\ e.import_name = node.name
                               /\ e.args = node.args
                               /\ e.alias = node.alias }

\* C23: the definition asked for on the NAME token of a LibraryImport or
\* ResourceImport is a LocationLink iff exactly one entry of the map has
\* the import's full key (import_name, args, alias) and that entry has a
\* source; then the link targets that source.  An entry that differs from
\* the import in args or alias only is neither counted nor chosen.
C23_ImportDefinitionMatchesFullKey ==
    (/\ pc = "defined"
     /\ is_in_range(tasks[1].position, range_from_token(node.name_token), TRUE))
        => /\ tasks[1].links # <<>>
                  <=> \E e \in MatchingImports :
                          MatchingImports = {e} /\ e.python_source # None
           /\ tasks[1].links # <<>>
                  => \E e \in MatchingImports :
                         tasks[1].links[1].target_uri = FileUri(e.python_source)

\* The diagnostics appended at the token of call j.
DiagnosticsAtCall(j) ==
    { i \in 1..Len(results) : results[i].range = range_from_token(calls[j].token) }

\* What the claim says the related information of the import error err of
\* doc is: the error's message, the file URI of the error's source, or of
\* the doc's when the error has none, and the error's line (zero-based), or
\* the doc's when the error has none.
RelatedTo(err, doc, related) ==
    /\ related.message = err.message
    /\ err.source # None => related.location.uri = FileUri(err.source)
    /\ err.source = None /\ doc.source # None
           => related.location.uri = FileUri(doc.source)
    /\ err.line_no # <<>>
           => related.location.range
                  = Range(Position(err.line_no[1] - 1, 0),
                          Position(err.line_no[1] - 1, 0))
    /\ err.line_no = <<>> /\ doc.line_no >= 0
           => related.location.range
                  = Range(Position(doc.line_no, 0), Position(doc.line_no, 0))

\* C25: a call that resolves to a doc with a non-empty errors list gets
\* exactly one Error 'Keyword definition contains errors.' at the keyword
\* token, whose related_information has one entry per import error, in
\* order, with the error's message, source (else the doc's) and line (else
\* the doc's).
C25_DefinitionErrorsAreRelated ==
    pc \in {"visited", "returned"} =>
        \A j \in 1..Len(calls) :
            DocNamed(calls[j].name).errors # <<>> =>
                /\ Cardinality({ i \in DiagnosticsAtCall(j) :
                                     /\ results[i].severity = "Error"
                                     /\ results[i].message
                                            = "Keyword definition contains errors." }) = 1
                /\ \A i \in DiagnosticsAtCall(j) :
                       results[i].message = "Keyword definition contains errors." =>
                           /\ Len(results[i].related_information)
                                  = Len(DocNamed(calls[j].name).errors)
                           /\ \A e \in 1..Len(DocNamed(calls[j].name).errors) :
                                  RelatedTo(DocNamed(calls[j].name).errors[e],
                                            DocNamed(calls[j].name),
                                            results[i].related_information[e])

\* Broken Kw (two import errors, the second without source and line) was
\* called under a run keyword
C25_Witness ==
    /\ pc = "visited"
    /\ \E j \in 2..Len(calls) :
           /\ calls[j].name = "Broken Kw"
           /\ \E i \in DiagnosticsAtCall(j) :
                  /\ Len(results[i].related_information) = 2
                  /\ results[i].related_information[1].location.uri
                         = "file:///lib/Other.py"
                  /\ results[i].related_information[2].location.uri
                         = "file:///lib/Broken.py"

\* C26: a call that resolves to a deprecated doc without errors that is no
\* error handler, and whose arguments bind, gets exactly one diagnostic at
\* its keyword token: a Hint tagged Deprecated, whose message holds the
\* doc's deprecated_message when it has one; it gets no Error.
C26_DeprecationIsOneHint ==
    pc \in {"visited", "returned"} =>
        \A j \in 1..Len(calls) :
            (/\ DocNamed(calls[j].name).is_deprecated
             /\ DocNamed(calls[j].name).errors = <<>>
             /\ ~DocNamed(calls[j].name).is_error_handler
             /\ resolve(DocNamed(calls[j].name), TokenValues(calls[j].args)) = "")
                => /\ Cardinality(DiagnosticsAtCall(j)) = 1
                   /\ \A i \in DiagnosticsAtCall(j) :
                          /\ results[i].severity = "Hint"
                          /\ results[i].tags = <<"Deprecated">>
                          /\ DocNamed(calls[j].name).deprecated_message # None
                                 => results[i].message
                                        = "Keyword '" \o calls[j].name
                                              \o "' is deprecated: "
                                              \o DocNamed(calls[j].name).deprecated_message
                                              \o "."

\* Older Log, deprecated with the message 'Use Log', was called
C26_Witness ==
    /\ pc = "visited"
    /\ \E j \in 1..Len(calls) :
           /\ calls[j].name = "Older Log"
           /\ resolve(DocNamed("Older Log"), TokenValues(calls[j].args)) = ""
           /\ Cardinality(DiagnosticsAtCall(j)) = 1
           /\ \E i \in DiagnosticsAtCall(j) :
                  results[i].message = "Keyword 'Older Log' is deprecated: Use Log."

----------------------------------------------------------------------------
(* Ranges *)

\* C27: every diagnostic is within the range of the node during whose
\* visit it was appended, the binding-failure diagnostic and the
\* diagnostics of nested run-keyword calls included; so every diagnostic
\* get() returns is within the range of a node of the analysed model.
C27_DiagnosticsWithinVisitedNode ==
    /\ node # NoNode =>
           \A i \in 1..Len(appended) :
               range_is_in_range(appended[i].range, range_from_node(node))
    /\ pc = "returned" =>
           \A i \in 1..Len(lists[1]) :
               \E l \in 1..Len(tasks[1].model) :
                   range_is_in_range(lists[1][i].range,
                                     range_from_node(tasks[1].model[l]))

\* get() returned the binding failure of a nested call with arguments,
\* whose range goes from the nested keyword to the last argument
C27_Witness ==
    /\ pc = "returned"
    /\ \E i \in 1..Len(lists[1]) :
           /\ lists[1][i].code = "DataError"
           /\ \E l \in 1..Len(tasks[1].model) :
                  /\ tasks[1].model[l].keyword.value = "Run Keyword"
                  /\ Len(tasks[1].model[l].args) = 3
                  /\ lists[1][i].range
                         = Range(range_from_token(tasks[1].model[l].args[1]).start,
                                 range_from_token(tasks[1].model[l].args[3]).end)

\* C28: the range of every diagnostic has its start at or before its end,
\* for every kind of node and every run keyword, the range from the start
\* of a keyword to the end of its last argument included.
C28_RangesAreOrdered ==
    /\ \A i \in 1..Len(results) :
           __le__(results[i].range.start, results[i].range.end)
    /\ \A i \in 1..Len(appended) :
           __le__(appended[i].range.start, appended[i].range.end)

\* the visit of a Run Keyword in a block appended the binding failure of
\* the nested call, from the nested keyword to its last argument
C28_Witness ==
    /\ pc = "block"
    /\ node.keyword.value = "Run Keyword"
    /\ \E i \in 1..Len(appended) :
           /\ appended[i].code = "DataError"
           /\ appended[i].range.start = range_from_token(node.args[1]).start
           /\ appended[i].range.end = range_from_token(node.args[Len(node.args)]).end
           /\ __lt__(range_from_token(node.args[1]).end, appended[i].range.end)


----------------------------------------------------------------------------
(* Source of the diagnostics *)

\* C31: every diagnostic in the Analyzer's buffer, and so every diagnostic
\* of the list get() returns, has the source DIAGNOSTICS_SOURCE_NAME
\* ("robotcode"), whatever the kind of the node, the run-keyword branch or
\* the failure that produced it.
C31_EveryDiagnosticHasSourceName ==
    /\ \A i \in 1..Len(results) : results[i].source = DIAGNOSTICS_SOURCE_NAME
    /\ \A l \in 1..Len(lists) : \A i \in 1..Len(lists[l]) :
           lists[l][i].source = "robotcode"

\* get() returned the diagnostics of a nested call of a keyword with
\* definition errors whose arguments do not bind, and a further one
C31_Witness ==
    /\ pc = "returned"
    /\ Len(lists[1]) >= 3
    /\ \E i, j \in 1..Len(lists[1]) :
           /\ lists[1][i].message = "Keyword definition contains errors."
           /\ lists[1][j].code = "DataError"

----------------------------------------------------------------------------
(* Run Keywords and Run Keyword If *)

\* The 'Incorrect use of AND' diagnostics anchored on argument i.
IncorrectAndAt(i) ==
    { d \in 1..Len(results) :
          /\ results[d].message = "Incorrect use of AND"
          /\ results[d].severity = "Error"
          /\ results[d].range = range_from_token(node.args[i]) }

\* C32: in Run Keywords, 'Incorrect use of AND' is appended, on the token,
\* exactly for each AND that is the first token of the stream or directly
\* follows another AND; an AND that separates two segments or ends the
\* stream after a segment gets no diagnostic.
C32_AndReportedWhereKeywordExpected ==
    (pc \in {"returned", "visited"} /\ node.keyword.value = "Run Keywords") =>
        \A i \in 1..Len(node.args) :
            Cardinality(IncorrectAndAt(i)) =
                IF /\ node.args[i].value = "AND"
                   /\ (i = 1 \/ node.args[i - 1].value = "AND")
                THEN 1 ELSE 0

\* The branch keyword at position i of the stream is analysed like a direct
\* call: one analyze_call on the token and, when its arguments do not bind,
\* the binding failure on the range from the token to its last argument.
AnalysedAsCall(i) ==
    \E j \in 1..Len(calls) :
        /\ calls[j].token = A[i]
        /\ resolve(DocNamed(calls[j].name), TokenValues(calls[j].args)) # ""
               => \E d \in 1..Len(results) :
                      /\ results[d].code = "DataError"
                      /\ results[d].range = ArgumentsRange(A[i], calls[j].args)

\* C33: when the first-branch keyword of Run Keyword If is itself of the
\* run-keyword family, it is analysed like a direct call (lookup drained,
\* definition and binding diagnostics appended), as an ELSE or ELSE IF branch
\* keyword of that family is.
C33_RunKeywordFirstBranchAnalysedAsCall ==
    (Returned("Run Keyword If") /\ Len(A) >= 2 /\ A[1].value \notin Markers
        /\ is_any_run_keyword(DocNamed(A[2].value)))
        => AnalysedAsCall(2)

\* The same for the ELSE and ELSE IF branches after a first branch that is
\* no run keyword: this holds.
C33_ElseBranchAnalysedAsCall ==
    (Returned("Run Keyword If") /\ WellFormedIf(A)
        /\ ~is_any_run_keyword(DocNamed(A[2].value)))
        => \A b \in Branches(A) :
               (b[1] # "IF" /\ is_any_run_keyword(DocNamed(A[b[2]].value)))
                   => AnalysedAsCall(b[2])

\* The positions of the stream at which the token is the keyword token of
\* analyze_call number j with the tokens right after it as arguments.
SliceStarts(j) ==
    { i \in 1..Len(A) :
          /\ calls[j].token = A[i]
          /\ i + Len(calls[j].args) <= Len(A)
          /\ calls[j].args = SubSeq(A, i + 1, i + Len(calls[j].args)) }

\* C34: the analysis of one call node terminates: every nested analyze_call,
\* and the nested state machine it starts, gets a token list strictly shorter
\* than the stream it was started from (its keyword token lies in that stream
\* and its arguments are tokens that follow the keyword token), and the
\* machine returns a suffix of its stream, so that every iteration of the
\* Run Keywords loop and of the branch loop removes a token or exits.
C34_NestedStreamsAreShorter ==
    pc = "returned" =>
        /\ \A j \in 1..Len(calls) :
               /\ SliceStarts(j) # {}
               /\ Len(calls[j].args) < Len(A)
        /\ Len(ret) <= Len(A)

\* A stream of four names that all resolve to run keywords: each is analysed,
\* each on a shorter stream
C34_Witness ==
    /\ pc = "returned"
    /\ Len(A) = 4
    /\ \A i \in 1..4 : is_any_run_keyword(DocNamed(A[i].value))
    /\ Len(calls) = 4
    /\ Len(calls[4].args) = 0

\* C35: within the analysis of one call node no token is the keyword token
\* of analyze_call more than once, whatever the nesting of run keywords, so
\* that no keyword occurrence is diagnosed twice: no two diagnostics of the
\* node are the same.
C35_NoTokenAnalysedTwice ==
    pc \in {"returned", "visited"} =>
        /\ \A j, k \in 1..Len(calls) : calls[j].token = calls[k].token => j = k
        /\ \A j, k \in 1..Len(results) : results[j] = results[k] => j = k

----------------------------------------------------------------------------
(* Suppression, related information and successive passes *)

\* C36: should_ignore only reads lines of the document that exist: it does
\* not fail with IndexError, also when the range ends on the last line or
\* after the last line of the document fetched at suppression time, and
\* without a document nothing is suppressed.
C36_ShouldIgnoreReadsExistingLines ==
    (pc \in {"second", "appended", "raised"} /\ appended # <<>>)
        => /\ exc # "IndexError"
           /\ ~document.present => results = Append(appended[1].before,
                                       Diagnostic(LastRange, "m", "Error", "KeywordError",
                                                  DIAGNOSTICS_SOURCE_NAME, <<>>))

\* C37: every position in the related_information of 'Keyword definition
\* contains errors.' has line >= 0 and character >= 0, whatever the line
\* number of the import error (absent, 0 or positive) and of the doc
\* (negative included).
C37_RelatedPositionsAreNotNegative ==
    \A i \in 1..Len(results) :
        \A e \in 1..Len(results[i].related_information) :
            /\ results[i].related_information[e].location.range.start.line >= 0
            /\ results[i].related_information[e].location.range.start.character >= 0
            /\ results[i].related_information[e].location.range.end.line >= 0
            /\ results[i].related_information[e].location.range.end.character >= 0

\* C38: for two successive get() calls on one Analyzer object, the list the
\* first call returned is not changed by the second call (it stays the
\* diagnostics of the first pass), the list the second call returns holds
\* only the diagnostics of the second pass, and the second pass starts
\* outside any block, with an empty buffer of its own, also when the first
\* pass was aborted inside the test case.
C38_SuccessivePassesAreSeparate ==
    /\ \A t \in {1, 2} :
           tasks[t].pc = "done"
               => lists[tasks[t].returned]
                      = OwnDiagnostics(tasks[t].model, tasks[t].namespace, 1)
    /\ tasks[2].pc = "enter"
           => /\ analyzers[1].current_testcase_or_keyword_name = None
              /\ lists[analyzers[1]._results] = <<>>
              /\ tasks[1].pc = "done" => analyzers[1]._results # tasks[1].returned

\* Both passes returned a diagnostic, each its own
C38_Witness ==
    /\ tasks[1].pc = "done" /\ tasks[2].pc = "done"
    /\ tasks[1].returned # tasks[2].returned
    /\ lists[tasks[1].returned] # <<>>
    /\ lists[tasks[2].returned] # <<>>
    /\ lists[tasks[1].returned] # lists[tasks[2].returned]

\* The first pass was aborted inside the test case after it had appended a
\* diagnostic; the second returned its own
C38_AbortedFirstPass ==
    /\ tasks[1].pc = "cancelled" /\ tasks[1].i > 1
    /\ lists[1] # <<>>
    /\ tasks[2].pc = "done"
    /\ lists[tasks[2].returned] # lists[1]


====
